---- MODULE Spec2Model ----
(***************************************************************************)
(* PesXChange backend: a state-machine model of the HTTP handlers, the      *)
(* middleware in front of them, and the three remote collaborators (data    *)
(* service tables, blob storage, identity provider).                        *)
(*                                                                          *)
(* Every request action models one whole request: the route middleware      *)
(* (JWTAuth, ValidateJSON), the handler and every service call it makes.    *)
(* The outcome of each remote call is an input of the action ("ok" or a     *)
(* failure), because the collaborators are outside the process.             *)
(*                                                                          *)
(* Text is modelled as a sequence of one-character strings where the code   *)
(* inspects the characters (SRN, titles, locations); identifiers and        *)
(* messages that are only compared for equality are plain strings.          *)
(***************************************************************************)
EXTENDS Bags, FiniteSets, Integers, Naturals, Sequences, TLC

VARIABLES
    now,        \* wall clock, in hours
    users,      \* table user_profiles: sequence of user rows
    items,      \* table items: sequence of item rows (insertion order)
    messages,   \* table messages: sequence of message rows
    blobs,      \* storage bucket item-images: sequence of stored objects
    hits,       \* rate limiter: requests counted in the current window
    tasks,      \* mark-as-read calls started by GetMessages, not yet run
    resp        \* the last request and its response

vars == <<now, users, items, messages, blobs, hits, tasks, resp>>

(* ------------------------------ bounds --------------------------------- *)
MaxItems == 2
MaxMessages == 2
MaxBlobs == 2
MaxTicks == 3
MaxMsgTicks == 1
MaxTasks == 1
RateBudget == 2

(* ------------------------- program constants --------------------------- *)
TokenTTL == 24
RefreshTTL == 168
ClockStep == 12
MaxPageLimit == 50
DefaultPageLimit == 12
MaxListImages == 3
SniffLen == 512
MaxFileSize == 5242880
MaxBase64Size == 7000000
MaxImagesPerUpload == 5
BodyLimit == 2097152
AuthRateLimitMax == 3

Issuer == "pesxchange-backend"
JWTSecret == "configured-secret"
DefaultLocation == <<"P", "E", "S", " ", "U">>

NoClaim == 0 - 1
NoUser == ""

UserIds == {"u1", "u2"}

(* ------------------------------ text ----------------------------------- *)
Lower == <<"a", "b", "c", "e", "g", "l", "m", "p", "s", "u">>
Upper == <<"A", "B", "C", "E", "G", "L", "M", "P", "S", "U">>
Digits == {"0", "1", "2", "3", "4", "5", "6", "7", "8", "9"}
Spaces == {" ", "\t", "\n"}

ToUpperChar(c) ==
    IF \E i \in 1..Len(Lower) : Lower[i] = c
    THEN Upper[CHOOSE i \in 1..Len(Lower) : Lower[i] = c]
    ELSE c

ToUpper(s) == [i \in 1..Len(s) |-> ToUpperChar(s[i])]

IsUpperLetter(c) == \E i \in 1..Len(Upper) : Upper[i] = c
IsDigit(c) == c \in Digits

RECURSIVE TrimLeft(_)
TrimLeft(s) ==
    IF s # <<>> /\ Head(s) \in Spaces THEN TrimLeft(Tail(s)) ELSE s

RECURSIVE TrimRight(_)
TrimRight(s) ==
    IF s # <<>> /\ s[Len(s)] \in Spaces
    THEN TrimRight(SubSeq(s, 1, Len(s) - 1))
    ELSE s

TrimSpace(s) == TrimRight(TrimLeft(s))

Min(a, b) == IF a < b THEN a ELSE b
Max(a, b) == IF a > b THEN a ELSE b

(* ---------------------- session tokens (JWT) --------------------------- *)
(* A token is what its three segments decode to: the header algorithm, the *)
(* key the signature was made with, and the claims.  exp and nbf are hours *)
(* or NoClaim when the claim is absent.                                    *)
Token(alg, key, iss, uid, srn, exp, nbf) ==
    [wellformed |-> TRUE, alg |-> alg, key |-> key, iss |-> iss, uid |-> uid,
     srn |-> srn, exp |-> exp, nbf |-> nbf]

GenerateJWT(user, t) ==
    Token("HS256", JWTSecret, Issuer, user.id, user.srn, t + TokenTTL, t)

RefreshJWT(user, t) ==
    Token("HS256", JWTSecret, Issuer, user.id, user.srn, t + RefreshTTL, t)

\* A token string that does not decode into three valid segments.
Malformed ==
    [wellformed |-> FALSE, alg |-> "", key |-> "", iss |-> "", uid |-> "",
     srn |-> <<>>, exp |-> NoClaim, nbf |-> NoClaim]
NoHeader == [prefix |-> "", token |-> Malformed]
Bearer(tok) == [prefix |-> "Bearer ", token |-> tok]

\* jwt.ParseWithClaims: the key function refuses every method but HS256, the
\* signature is verified with the configured secret, and the registered
\* claims are validated against the clock (exp and nbf, when present).
ParseWithClaimsNoAlg(tok, t) ==
    /\ tok.wellformed
    /\ tok.key = JWTSecret
    /\ (tok.exp # NoClaim => t < tok.exp)
    /\ (tok.nbf # NoClaim => t >= tok.nbf)

ParseWithClaims(tok, t) ==
    /\ tok.wellformed
    /\ tok.alg = "HS256"
    /\ tok.key = JWTSecret
    /\ (tok.exp # NoClaim => t < tok.exp)
    /\ (tok.nbf # NoClaim => t >= tok.nbf)

Reject(status, error) ==
    [pass |-> FALSE, status |-> status, error |-> error, userID |-> NoUser,
     userSRN |-> <<>>]

JWTAuthNoCheck(hdr, t) ==
    IF hdr = NoHeader THEN Reject(401, "Authorization header required")
    ELSE IF hdr.prefix # "Bearer "
         THEN Reject(401, "Invalid authorization header format")
    ELSE IF ~hdr.token.wellformed THEN Reject(401, "Invalid token")
    ELSE [pass |-> TRUE, status |-> 200, error |-> "",
          userID |-> hdr.token.uid, userSRN |-> hdr.token.srn]

\* JWTAuth middleware: the verdict on an Authorization header at time t.
JWTAuth(hdr, t) ==
    IF hdr = NoHeader THEN Reject(401, "Authorization header required")
    ELSE IF hdr.prefix # "Bearer "
         THEN Reject(401, "Invalid authorization header format")
    ELSE IF ~ParseWithClaims(hdr.token, t) THEN Reject(401, "Invalid token")
    ELSE IF hdr.token.iss # Issuer THEN Reject(401, "Invalid token issuer")
    ELSE IF hdr.token.uid = "" \/ hdr.token.srn = <<>>
         THEN Reject(401, "Invalid token claims")
    ELSE [pass |-> TRUE, status |-> 200, error |-> "",
          userID |-> hdr.token.uid, userSRN |-> hdr.token.srn]

\* ValidateJSON middleware: POST, PUT and PATCH need the JSON content type.
ValidateJSON(method, ctype) ==
    (method \in {"POST", "PUT", "PATCH"}) => (ctype = "application/json")

(* -------------------------- sample principals -------------------------- *)
Srn1 == <<"P", "E", "S", "1", "U", "G", "2", "0", "C", "S", "0", "0", "1">>
Srn2 == <<"P", "E", "S", "2", "U", "G", "2", "1", "E", "C", "0", "0", "2">>
SrnOf(uid) == IF uid = "u1" THEN Srn1 ELSE IF uid = "u2" THEN Srn2 ELSE <<>>

SessionToken(uid) == Token("HS256", JWTSecret, Issuer, uid, SrnOf(uid), TokenTTL, 0)
ForgedToken(uid) == Token("HS256", "other-secret", Issuer, uid, SrnOf(uid), TokenTTL, 0)

\* Authorization headers tried against the domain handlers.
Headers ==
    {NoHeader, Bearer(ForgedToken("u1"))}
    \cup {Bearer(SessionToken(u)) : u \in UserIds}

ContentTypes == {"application/json", "text/plain"}
DbOutcomes == {"ok", "fail"}

(* --------------------------- responses --------------------------------- *)
\* What a request left behind: the operation, whether the handler body ran,
\* the status and error text, the identity JWTAuth put in the context, the
\* request itself and the payload of the response.
Response(op, ran, status, error, userID, req, data) ==
    [op |-> op, ran |-> ran, status |-> status, error |-> error,
     userID |-> userID, req |-> req, data |-> data]

NoData == [none |-> TRUE]

\* The response of a request stopped by the route middleware.
Stopped(op, auth, req) ==
    IF ~auth.pass
    THEN Response(op, FALSE, auth.status, auth.error, NoUser, req, NoData)
    ELSE Response(op, FALSE, 400, "Content-Type must be application/json",
                  auth.userID, req, NoData)

(* ------------------------------ items ---------------------------------- *)
TitleOk == <<"L", "a", "m", "p">>
TitlePadded == <<" ", "L", "a", "m", "p", " ">>
TitleShort == <<"L", "a">>
DescOk == <<"b", "a", "r", "e", "l", "y", " ", "u", "s", "e", "d">>
LocLab == <<"L", "a", "b">>
LocBlank == <<" ">>
Conditions == {"New", "Like New", "Good", "Fair", "Poor"}
Unset == "unset"

\* validator.Struct on CreateItemRequest without the tags of Price.
ValidateCreateNoPrice(b) ==
    (IF Len(b.title) = 0 \/ Len(b.title) < 3 \/ Len(b.title) > 100
        THEN {"Title"} ELSE {})
    \cup (IF Len(b.description) = 0 \/ Len(b.description) < 10
             \/ Len(b.description) > 1000
          THEN {"Description"} ELSE {})
    \cup (IF Len(b.location) = 0 THEN {"Location"} ELSE {})
    \cup (IF b.condition \notin Conditions THEN {"Condition"} ELSE {})
    \cup (IF b.seller_id = "" THEN {"SellerID"} ELSE {})

\* validator.Struct on CreateItemRequest: the fields that fail their tags.
ValidateCreate(b) ==
    (IF Len(b.title) = 0 \/ Len(b.title) < 3 \/ Len(b.title) > 100
        THEN {"Title"} ELSE {})
    \cup (IF Len(b.description) = 0 \/ Len(b.description) < 10
             \/ Len(b.description) > 1000
          THEN {"Description"} ELSE {})
    \cup (IF b.price = 0 \/ ~(b.price > 0) THEN {"Price"} ELSE {})
    \cup (IF Len(b.location) = 0 THEN {"Location"} ELSE {})
    \cup (IF b.condition \notin Conditions THEN {"Condition"} ELSE {})
    \cup (IF b.seller_id = "" THEN {"SellerID"} ELSE {})

\* ItemService.CreateItem storing the title as it was sent.
NewItemKeepTitle(id, b, t) ==
    [id |-> id,
     title |-> b.title,
     description |-> TrimSpace(b.description),
     price |-> b.price,
     location |-> IF TrimSpace(b.location) = <<>> THEN DefaultLocation
                  ELSE TrimSpace(b.location),
     condition |-> b.condition,
     images |-> b.images,
     views |-> IF b.views = Unset THEN 0 ELSE b.views,
     is_available |-> IF b.is_available = Unset THEN TRUE ELSE b.is_available,
     is_featured |-> FALSE,
     seller_id |-> b.seller_id,
     created_at |-> t,
     updated_at |-> t,
     category |-> b.category]

\* ItemService.CreateItem: the row built from the request.
NewItem(id, b, t) ==
    [id |-> id,
     title |-> TrimSpace(b.title),
     description |-> TrimSpace(b.description),
     price |-> b.price,
     location |-> IF TrimSpace(b.location) = <<>> THEN DefaultLocation
                  ELSE TrimSpace(b.location),
     condition |-> b.condition,
     images |-> b.images,
     views |-> IF b.views = Unset THEN 0 ELSE b.views,
     is_available |-> IF b.is_available = Unset THEN TRUE ELSE b.is_available,
     is_featured |-> FALSE,
     seller_id |-> b.seller_id,
     created_at |-> t,
     updated_at |-> t,
     category |-> b.category]

Result(status, error, data, table) ==
    [status |-> status, error |-> error, data |-> data, table |-> table]

\* ItemHandler.CreateItem with the service call inlined; userID is the
\* identity from the token, db the outcome of the insert.
CreateItemKeepSeller(userID, b, db, t, table) ==
    IF ~b.parses THEN Result(400, "Invalid request body", NoData, table)
    ELSE IF ValidateCreate(b) # {}
         THEN Result(400, "validation", [fields |-> ValidateCreate(b)], table)
    ELSE IF userID = NoUser
         THEN Result(401, "Authentication required", NoData, table)
    ELSE IF db # "ok" THEN Result(500, "Failed to create item", NoData, table)
    ELSE LET item == NewItem(Len(table) + 1, b, t)
         IN  Result(201, "", [item |-> item], Append(table, item))

CreateItemHandler(userID, b, db, t, table) ==
    IF ~b.parses THEN Result(400, "Invalid request body", NoData, table)
    ELSE IF ValidateCreate(b) # {}
         THEN Result(400, "validation", [fields |-> ValidateCreate(b)], table)
    ELSE IF userID = NoUser
         THEN Result(401, "Authentication required", NoData, table)
    ELSE IF b.seller_id # "" /\ b.seller_id # userID
         THEN Result(403, "You can only create items for yourself", NoData, table)
    ELSE IF db # "ok" THEN Result(500, "Failed to create item", NoData, table)
    ELSE LET item == NewItem(Len(table) + 1, [b EXCEPT !.seller_id = userID], t)
         IN  Result(201, "", [item |-> item], Append(table, item))

CreateBody(title, price, location, seller) ==
    [parses |-> TRUE, title |-> title, description |-> DescOk, price |-> price,
     location |-> location, condition |-> "Good", category |-> "",
     images |-> <<>>, seller_id |-> seller, is_available |-> Unset,
     views |-> Unset]

\* request bodies tried: every seller against every location, and one body
\* for each way validation or parsing fails
CreateBodies ==
    {CreateBody(TitlePadded, 5, lo, se) :
        lo \in {<<>>, LocBlank}, se \in UserIds \cup {""}}
    \cup {CreateBody(TitleOk, 10, LocLab, se) : se \in UserIds \cup {""}}
    \cup {CreateBody(TitleShort, 5, LocLab, "u2"),
          CreateBody(TitleOk, 0, LocLab, "u2"),
          [CreateBody(TitleOk, 5, LocLab, "u1") EXCEPT !.parses = FALSE],
          [CreateBody(TitleOk, 5, LocLab, "u2") EXCEPT !.condition = "Used"]}

CreateRequests ==
    {[hdr |-> h, ctype |-> "application/json", body |-> b, db |-> "ok"] :
        h \in Headers, b \in CreateBodies}
    \cup {[hdr |-> Bearer(SessionToken("u1")), ctype |-> c,
           body |-> CreateBody(TitleOk, 10, LocLab, "u1"), db |-> d] :
           c \in ContentTypes, d \in DbOutcomes}

\* POST /api/items
CreateItemReq(hdr, ctype, b, db) ==
    LET auth == JWTAuth(hdr, now)
        req == [hdr |-> hdr, ctype |-> ctype, body |-> b, db |-> db]
    IN  IF ~auth.pass \/ ~ValidateJSON("POST", ctype)
        THEN /\ resp' = Stopped("CreateItem", auth, req)
             /\ UNCHANGED items
        ELSE LET r == CreateItemHandler(auth.userID, b, db, now, items)
             IN  /\ Len(r.table) <= MaxItems
                 /\ items' = r.table
                 /\ resp' = Response("CreateItem", TRUE, r.status, r.error,
                                     auth.userID, req, r.data)

\* ItemService.UpdateItem.  The ownership query and the update both discard
\* the rows the data service returns, so the slices the code tests afterwards
\* (items, updatedItems) are the empty slices they were declared as.
ApplyUpdates(row, updates, t) ==
    [f \in DOMAIN row |->
        IF f = "updated_at" THEN t
        ELSE IF f \in DOMAIN updates /\ f \notin {"id", "seller_id", "created_at"}
        THEN updates[f] ELSE row[f]]

\* ItemHandler.UpdateItem / DeleteItem: the status chosen for a service error.
ItemErrorStatus(err) ==
    IF err = "" THEN 200
    ELSE IF err = "item not found" THEN 404
    ELSE IF err = "unauthorized: not the item owner" THEN 403
    ELSE 500

UpdateItemService(itemID, sellerID, updates, dbSelect, dbUpdate, t, table) ==
    LET ownerRows == <<>>
        updatedItems == <<>>
    IN  IF dbSelect # "ok"
        THEN Result(ItemErrorStatus("failed to verify item ownership"), "failed to verify item ownership", NoData, table)
        ELSE IF Len(ownerRows) = 0
        THEN Result(ItemErrorStatus("item not found"), "item not found", NoData, table)
        ELSE IF ownerRows[1].seller_id # sellerID
        THEN Result(ItemErrorStatus("unauthorized: not the item owner"), "unauthorized: not the item owner", NoData, table)
        ELSE IF dbUpdate # "ok"
        THEN Result(ItemErrorStatus("failed to update item"), "failed to update item", NoData, table)
        ELSE LET written == [i \in 1..Len(table) |->
                                IF table[i].id = itemID
                                THEN ApplyUpdates(table[i], updates, t)
                                ELSE table[i]]
             IN  IF Len(updatedItems) = 0
                 THEN Result(ItemErrorStatus("item not found"), "item not found", NoData, written)
                 ELSE Result(ItemErrorStatus(""), "", [item |-> updatedItems[1]], written)

UpdateBodies ==
    {[parses |-> TRUE, fields |-> [price |-> 7]],
     [parses |-> TRUE, fields |-> [seller_id |-> "u2", title |-> TitleOk]],
     [parses |-> FALSE, fields |-> [price |-> 7]]}

ItemIds == 1..(MaxItems + 1)
Exists(table, itemID) == \E i \in 1..Len(table) : table[i].id = itemID
RowOf(table, itemID) == table[CHOOSE i \in 1..Len(table) : table[i].id = itemID]

\* PUT /api/items/:id
UpdateItemReq(hdr, ctype, itemID, b, dbSelect, dbUpdate) ==
    LET auth == JWTAuth(hdr, now)
        req == [hdr |-> hdr, ctype |-> ctype, id |-> itemID, body |-> b,
                dbSelect |-> dbSelect, dbUpdate |-> dbUpdate]
    IN  IF ~auth.pass \/ ~ValidateJSON("PUT", ctype)
        THEN /\ resp' = Stopped("UpdateItem", auth, req)
             /\ UNCHANGED items
        ELSE IF ~b.parses
        THEN /\ resp' = Response("UpdateItem", TRUE, 400, "Invalid request body",
                                 auth.userID, req, NoData)
             /\ UNCHANGED items
        ELSE LET r == UpdateItemService(itemID, auth.userID, b.fields,
                                        dbSelect, dbUpdate, now, items)
             IN  /\ items' = r.table
                 /\ resp' = Response("UpdateItem", TRUE, r.status, r.error,
                                     auth.userID, req, r.data)

\* DELETE /api/items/:id: ItemService.DeleteItem is UpdateItem with only the
\* update timestamp in the payload.
DeleteItemReq(hdr, itemID, dbSelect, dbUpdate) ==
    LET auth == JWTAuth(hdr, now)
        req == [hdr |-> hdr, id |-> itemID,
                dbSelect |-> dbSelect, dbUpdate |-> dbUpdate]
    IN  IF ~auth.pass
        THEN /\ resp' = Stopped("DeleteItem", auth, req)
             /\ UNCHANGED items
        ELSE LET r == UpdateItemService(itemID, auth.userID, [updated_at |-> now],
                                        dbSelect, dbUpdate, now, items)
             IN  /\ items' = r.table
                 /\ resp' = Response("DeleteItem", TRUE, r.status, r.error,
                                     auth.userID, req, r.data)

(* ----------------------------- listing --------------------------------- *)
Absent == [kind |-> "absent", n |-> 0]
Text == [kind |-> "text", n |-> 0]
Num(n) == [kind |-> "int", n |-> n]

\* strconv.Atoi(c.Query(name, default)) with the error dropped.
Atoi(q, default) ==
    IF q.kind = "absent" THEN default ELSE IF q.kind = "text" THEN 0 ELSE q.n

ParsePagination(limitQ, offsetQ) ==
    LET limit == Atoi(limitQ, DefaultPageLimit)
        offset == Atoi(offsetQ, 0)
    IN  [limit |-> IF limit > MaxPageLimit THEN MaxPageLimit
                   ELSE IF limit < 1 THEN DefaultPageLimit ELSE limit,
         offset |-> IF offset < 0 THEN 0 ELSE offset]

Ascii ==
    <<"\t", "\n", " ", "0", "1", "2", "3", "4", "5", "6", "7", "8", "9",
      "A", "B", "C", "E", "G", "L", "M", "P", "S", "U",
      "a", "b", "c", "e", "g", "l", "m", "p", "s", "u">>
CharRank(c) == CHOOSE i \in 1..Len(Ascii) : Ascii[i] = c

RECURSIVE LexLess(_, _)
LexLess(a, b) ==
    IF a = <<>> THEN b # <<>>
    ELSE IF b = <<>> THEN FALSE
    ELSE IF Head(a) = Head(b) THEN LexLess(Tail(a), Tail(b))
    ELSE CharRank(Head(a)) < CharRank(Head(b))

\* a case-insensitive "contains", as ILIKE %pat% (no wildcards in pat)
IsPrefix(p, s) == Len(p) <= Len(s) /\ SubSeq(s, 1, Len(p)) = p
Ilike(s, pat) ==
    \E k \in 0..Len(s) : IsPrefix(ToUpper(pat), ToUpper(SubSeq(s, k + 1, Len(s))))

NoFilters ==
    [search |-> <<>>, category |-> "", condition |-> "", min_price |-> 0,
     max_price |-> 0, location |-> <<>>, sort |-> ""]

\* the filters of ItemService.GetItems, each applied only when it is set
Matches(row, f) ==
    /\ (f.search # <<>> => Ilike(row.title, f.search))
    /\ (f.category # "" => row.category = f.category)
    /\ (f.condition # "" => row.condition = f.condition)
    /\ (f.min_price > 0 => row.price >= f.min_price)
    /\ (f.max_price > 0 => row.price <= f.max_price)
    /\ (f.location # <<>> => Ilike(row.location, f.location))

RECURSIVE SelectRows(_, _)
SelectRows(rows, f) ==
    IF rows = <<>> THEN <<>>
    ELSE IF Matches(Head(rows), f)
    THEN <<Head(rows)>> \o SelectRows(Tail(rows), f)
    ELSE SelectRows(Tail(rows), f)

\* the column and direction ItemService.GetItems asks for
SortColumn(f) ==
    IF f.sort = "price_asc" \/ f.sort = "price_desc" THEN "price"
    ELSE IF f.sort = "title" THEN "title"
    ELSE "created_at"

\* row a sorts strictly before row b in descending order of col
Precedes(a, b, col) ==
    IF col = "price" THEN a.price > b.price
    ELSE IF col = "title" THEN LexLess(b.title, a.title)
    ELSE a.created_at > b.created_at

RECURSIVE InsertRow(_, _, _)
InsertRow(sorted, row, col) ==
    IF sorted = <<>> THEN <<row>>
    ELSE IF Precedes(row, Head(sorted), col)
    THEN <<row>> \o sorted
    ELSE <<Head(sorted)>> \o InsertRow(Tail(sorted), row, col)

\* query.Order(col, nil): with no options the client orders descending;
\* rows with equal keys keep their insertion order.
RECURSIVE Order(_, _)
Order(rows, col) ==
    IF rows = <<>> THEN <<>>
    ELSE InsertRow(Order(SubSeq(rows, 1, Len(rows) - 1), col),
                   rows[Len(rows)], col)

\* query.Range(from, to): rows from+1 .. to+1 of the ordered result
Range(rows, from, to) == SubSeq(rows, from + 1, Min(to + 1, Len(rows)))

\* an image entry: an inline data: URL or a storage URL, with its length
Image(inline, size) == [inline |-> inline, size |-> size]

RECURSIVE KeepListed(_)
KeepListed(imgs) ==
    IF imgs = <<>> THEN <<>>
    ELSE IF Head(imgs).size > 500 /\ Head(imgs).inline
    THEN KeepListed(Tail(imgs))
    ELSE <<Head(imgs)>> \o KeepListed(Tail(imgs))

\* processItemImages leaving the stored list as it is
ProcessItemImagesKeepAll(row) == row

\* ItemService.processItemImages on one row
ProcessItemImages(row) ==
    [row EXCEPT !.images =
        KeepListed(SubSeq(row.images, 1, Min(Len(row.images), MaxListImages)))]

\* ItemService.GetItems: the page and the total it reports.  dbCount is the
\* outcome of the count query: "ok", "fail", or "unparsable" (no count in it).
GetItemsServiceNoRange(limit, offset, f, dbPage, dbCount, table) ==
    LET matching == Order(SelectRows(table, f), SortColumn(f))
        page == [i \in 1..Len(matching) |-> ProcessItemImages(matching[i])]
        counted == IF dbCount = "ok" THEN Len(matching) ELSE 0
    IN  IF dbPage # "ok" THEN [err |-> "failed to get items", page |-> <<>>, total |-> 0]
        ELSE IF dbCount = "fail" THEN [err |-> "", page |-> page, total |-> Len(page)]
        ELSE [err |-> "", page |-> page,
              total |-> IF counted = 0 THEN Len(page) ELSE counted]

GetItemsService(limit, offset, f, dbPage, dbCount, table) ==
    LET matching == Order(SelectRows(table, f), SortColumn(f))
        ranged == Range(matching, offset, offset + limit - 1)
        page == [i \in 1..Len(ranged) |-> ProcessItemImages(ranged[i])]
        counted == IF dbCount = "ok" THEN Len(matching) ELSE 0
    IN  IF dbPage # "ok" THEN [err |-> "failed to get items", page |-> <<>>, total |-> 0]
        ELSE IF dbCount = "fail" THEN [err |-> "", page |-> page, total |-> Len(page)]
        ELSE [err |-> "", page |-> page,
              total |-> IF counted = 0 THEN Len(page) ELSE counted]

\* ItemHandler.GetItems keeps a sort key only when it is in the allow-list.
ParseFilters(q) ==
    [q EXCEPT !.search = TrimSpace(q.search),
              !.location = TrimSpace(q.location),
              !.sort = IF q.sort \in {"created_at", "price_asc", "price_desc", "title"}
                       THEN q.sort ELSE ""]

LimitParams == {Absent, Text, Num(-1), Num(0), Num(1), Num(2), Num(51)}
OffsetParams == {Absent, Num(-1), Num(1), Num(MaxItems + 1)}
FilterParams ==
    {[NoFilters EXCEPT !.condition = "Good", !.sort = "price_asc"],
     [NoFilters EXCEPT !.search = <<"l", "a">>, !.sort = "bogus"],
     [NoFilters EXCEPT !.min_price = 6]}

ListRequests ==
    {[limit |-> l, offset |-> o, filters |-> NoFilters, dbPage |-> "ok",
      dbCount |-> "ok"] : l \in LimitParams, o \in OffsetParams}
    \cup {[limit |-> Num(1), offset |-> Absent, filters |-> q, dbPage |-> "ok",
           dbCount |-> "ok"] : q \in FilterParams}
    \cup {[limit |-> l, offset |-> o, filters |-> NoFilters, dbPage |-> "ok",
           dbCount |-> d] : l \in {Absent, Num(1)}, o \in {Absent, Num(1)},
                            d \in {"fail", "unparsable"}}
    \cup {[limit |-> Absent, offset |-> Absent, filters |-> NoFilters,
           dbPage |-> "fail", dbCount |-> "ok"]}

\* GET /api/items (public)
GetItemsReq(limitQ, offsetQ, q, dbPage, dbCount) ==
    LET pg == ParsePagination(limitQ, offsetQ)
        r == GetItemsService(pg.limit, pg.offset, ParseFilters(q), dbPage,
                             dbCount, items)
        req == [limit |-> limitQ, offset |-> offsetQ, filters |-> q,
                dbPage |-> dbPage, dbCount |-> dbCount]
    IN  /\ UNCHANGED items
        /\ resp' =
             IF r.err # ""
             THEN Response("GetItems", TRUE, 500, "Failed to retrieve items",
                           NoUser, req, NoData)
             ELSE Response("GetItems", TRUE, 200, "", NoUser, req,
                           [items |-> r.page, limit |-> pg.limit,
                            offset |-> pg.offset, total |-> r.total])

(* ------------------------- items specification ------------------------- *)
NoResponse == Response("none", FALSE, 0, "", NoUser, NoData, NoData)

Init ==
    /\ now = 0
    /\ users = <<>>
    /\ items = <<>>
    /\ messages = <<>>
    /\ blobs = <<>>
    /\ hits = 0
    /\ tasks = <<>>
    /\ resp = NoResponse

ItemsFrame == UNCHANGED <<now, users, messages, blobs, hits, tasks>>

ItemsCreate ==
    /\ \E r \in CreateRequests : CreateItemReq(r.hdr, r.ctype, r.body, r.db)
    /\ ItemsFrame

ItemsUpdate ==
    /\ \/ \E hdr \in Headers, id \in ItemIds, b \in UpdateBodies :
             UpdateItemReq(hdr, "application/json", id, b, "ok", "ok")
       \/ \E c \in ContentTypes, d1 \in DbOutcomes, d2 \in DbOutcomes :
             UpdateItemReq(Bearer(SessionToken("u1")), c, 1,
                           [parses |-> TRUE, fields |-> [price |-> 7]], d1, d2)
    /\ ItemsFrame

ItemsDelete ==
    /\ \/ \E hdr \in Headers, id \in ItemIds : DeleteItemReq(hdr, id, "ok", "ok")
       \/ \E d1 \in DbOutcomes, d2 \in DbOutcomes :
             DeleteItemReq(Bearer(SessionToken("u1")), 1, d1, d2)
    /\ ItemsFrame

ItemsList ==
    /\ \E r \in ListRequests :
          GetItemsReq(r.limit, r.offset, r.filters, r.dbPage, r.dbCount)
    /\ ItemsFrame

ItemsNext == ItemsCreate \/ ItemsUpdate \/ ItemsDelete \/ ItemsList

SpecItems == Init /\ [][ItemsNext]_vars

(* ------------------------- users and login ----------------------------- *)
UserIdAt(n) == <<"u1", "u2", "u3", "u4">>[n]

\* the profile the identity provider holds for an SRN; v distinguishes what
\* it returns at different times (a new semester, a corrected name)
Profile(srn, v) ==
    [name |-> <<"N", v>>, prn |-> <<"R">> \o srn, srn |-> srn,
     program |-> "BTech", branch |-> "CSE", semester |-> v, section |-> "A",
     email |-> <<"mail", v>>, phone |-> "", campus_code |-> 1, campus |-> "RR"]

\* AuthService.ValidateSRN: ^PES\d{1}[A-Z]{2}\d{2}[A-Z]{2}\d{3}$ on the
\* upper-cased input
ValidateSRNPrefixOnly(srn) ==
    LET u == ToUpper(srn)
    IN  /\ Len(u) >= 13
        /\ u[1] = "P" /\ u[2] = "E" /\ u[3] = "S"
        /\ IsDigit(u[4])
        /\ IsUpperLetter(u[5]) /\ IsUpperLetter(u[6])
        /\ IsDigit(u[7]) /\ IsDigit(u[8])
        /\ IsUpperLetter(u[9]) /\ IsUpperLetter(u[10])
        /\ IsDigit(u[11]) /\ IsDigit(u[12]) /\ IsDigit(u[13])

ValidateSRN(srn) ==
    LET u == ToUpper(srn)
    IN  /\ Len(u) = 13
        /\ u[1] = "P" /\ u[2] = "E" /\ u[3] = "S"
        /\ IsDigit(u[4])
        /\ IsUpperLetter(u[5]) /\ IsUpperLetter(u[6])
        /\ IsDigit(u[7]) /\ IsDigit(u[8])
        /\ IsUpperLetter(u[9]) /\ IsUpperLetter(u[10])
        /\ IsDigit(u[11]) /\ IsDigit(u[12]) /\ IsDigit(u[13])

\* UserService.UpsertUser.  dbSelect, dbWrite: outcomes of the lookup and of
\* the update or insert.  Returns the error, the user handed back, the table
\* afterwards and the reads and writes issued.
Upsert(err, user, table, reads, writes) ==
    [err |-> err, user |-> user, table |-> table, reads |-> reads,
     writes |-> writes]

NoRow == [id |-> NoUser, srn |-> <<>>]

NewUser(id, profile, t) ==
    [id |-> id, srn |-> profile.srn, prn |-> profile.prn, name |-> profile.name,
     email |-> profile.email, phone |-> profile.phone, bio |-> "",
     avatar_url |-> "", program |-> profile.program, branch |-> profile.branch,
     semester |-> profile.semester, section |-> profile.section,
     campus_code |-> profile.campus_code, campus |-> profile.campus,
     rating |-> 0, verified |-> TRUE, location |-> DefaultLocation,
     created_at |-> t, updated_at |-> t, last_login |-> t, nickname |-> ""]

RefreshedUser(old, profile, t) ==
    [id |-> old.id, srn |-> profile.srn, prn |-> profile.prn,
     name |-> profile.name, email |-> profile.email, phone |-> profile.phone,
     bio |-> old.bio, avatar_url |-> old.avatar_url,
     program |-> profile.program, branch |-> profile.branch,
     semester |-> profile.semester, section |-> profile.section,
     campus_code |-> profile.campus_code, campus |-> profile.campus,
     rating |-> old.rating, verified |-> TRUE, location |-> old.location,
     created_at |-> old.created_at, updated_at |-> t, last_login |-> t,
     nickname |-> old.nickname]

UpsertUserResetLocal(profile, dbSelect, dbWrite, t, table) ==
    LET HasSrn(row) == row.srn = profile.srn
        existing == SelectSeq(table, HasSrn)
    IN  IF dbSelect # "ok"
        THEN Upsert(<<"failed", "to", "check", "existing", "user">>, NoRow, table, 1, 0)
        ELSE IF Len(existing) > 0
        THEN LET updated == NewUser(existing[1].id, profile, t)
             IN  IF dbWrite # "ok"
                 THEN Upsert(<<"failed", "to", "update", "user">>, NoRow, table, 1, 1)
                 ELSE Upsert(<<>>, updated,
                             [i \in 1..Len(table) |->
                                 IF table[i].id = existing[1].id THEN updated
                                 ELSE table[i]], 1, 1)
        ELSE LET created == NewUser(UserIdAt(Len(table) + 1), profile, t)
             IN  IF dbWrite # "ok"
                 THEN Upsert(<<"failed", "to", "create", "user">>, NoRow, table, 1, 1)
                 ELSE Upsert(<<>>, created, Append(table, created), 1, 1)

UpsertUser(profile, dbSelect, dbWrite, t, table) ==
    LET HasSrn(row) == row.srn = profile.srn
        existing == SelectSeq(table, HasSrn)
    IN  IF dbSelect # "ok"
        THEN Upsert(<<"failed", "to", "check", "existing", "user">>, NoRow, table, 1, 0)
        ELSE IF Len(existing) > 0
        THEN LET updated == RefreshedUser(existing[1], profile, t)
             IN  IF dbWrite # "ok"
                 THEN Upsert(<<"failed", "to", "update", "user">>, NoRow, table, 1, 1)
                 ELSE Upsert(<<>>, updated,
                             [i \in 1..Len(table) |->
                                 IF table[i].id = existing[1].id THEN updated
                                 ELSE table[i]], 1, 1)
        ELSE LET created == NewUser(UserIdAt(Len(table) + 1), profile, t)
             IN  IF dbWrite # "ok"
                 THEN Upsert(<<"failed", "to", "create", "user">>, NoRow, table, 1, 1)
                 ELSE Upsert(<<>>, created, Append(table, created), 1, 1)

\* what the identity provider did with the request
\*   transport : the HTTP call failed        status   : a status other than 200
\*   garbage   : a body that is not the JSON expected
\*   denied    : status:false with a message  noprofile: status:true, no profile
\*   ok        : status:true with the profile (version v)
Provider(kind, v) == [kind |-> kind, v |-> v]
DeniedMessage == <<"Invalid", "username", "or", "password">>

AuthResult(err, user, table, called, reads, writes) ==
    [called |-> TRUE, err |-> err, user |-> user, table |-> table,
     provider |-> called, reads |-> reads, writes |-> writes]

\* AuthService.AuthenticateWithPESU
AuthenticateAfterFormat(username, password, pr, dbSelect, dbWrite, t, table) ==
    LET u == TrimSpace(username)
        pw == TrimSpace(password)
    IN  IF u = <<>> \/ pw = <<>>
        THEN AuthResult(<<"username", "and", "password", "are", "required">>,
                        NoRow, table, FALSE, 0, 0)
        ELSE IF Len(u) > 20 \/ Len(pw) > 128
        THEN AuthResult(<<"input", "length", "exceeds", "maximum", "allowed">>,
                        NoRow, table, FALSE, 0, 0)
        ELSE IF pr.kind = "transport"
        THEN AuthResult(<<"failed", "to", "connect", "to", "authentication",
                          "service">>, NoRow, table, TRUE, 0, 0)
        ELSE IF pr.kind = "status"
        THEN AuthResult(<<"authentication", "service", "unavailable", "(status)">>,
                        NoRow, table, TRUE, 0, 0)
        ELSE IF pr.kind = "garbage"
        THEN AuthResult(<<"invalid", "authentication", "response">>,
                        NoRow, table, TRUE, 0, 0)
        ELSE IF pr.kind = "denied"
        THEN AuthResult(<<"authentication", "failed">> \o DeniedMessage,
                        NoRow, table, TRUE, 0, 0)
        ELSE IF pr.kind = "noprofile"
        THEN AuthResult(<<"profile", "information", "not", "available">>,
                        NoRow, table, TRUE, 0, 0)
        ELSE LET up == UpsertUser(Profile(ToUpper(u), pr.v), dbSelect, dbWrite,
                                  t, table)
             IN  IF up.err # <<>>
                 THEN AuthResult(<<"failed", "to", "create/update", "user",
                                   "profile">> \o up.err, NoRow, up.table, TRUE,
                                 up.reads, up.writes)
                 ELSE AuthResult(<<>>, up.user, up.table, TRUE, up.reads, up.writes)

AuthenticateWithPESU(username, password, pr, dbSelect, dbWrite, t, table) ==
    IF ~ValidateSRN(username)
    THEN AuthResult(<<"invalid", "SRN", "format">>, NoRow, table, FALSE, 0, 0)
    ELSE AuthenticateAfterFormat(username, password, pr, dbSelect, dbWrite, t, table)

\* strings.Contains on the words of an error text
Contains(text, words) ==
    \E k \in 0..Len(text) :
        /\ k + Len(words) <= Len(text)
        /\ SubSeq(text, k + 1, k + Len(words)) = words

\* AuthHandler.LoginWithPESU: the status and message chosen for a service error
LoginError(err) ==
    IF \/ Contains(err, <<"authentication", "failed">>)
       \/ Contains(err, <<"invalid", "SRN", "format">>)
    THEN [status |-> 401, error |-> err]
    ELSE IF Contains(err, <<"authentication", "service", "unavailable">>)
    THEN [status |-> 503, error |-> <<"Authentication", "service", "unavailable">>]
    ELSE IF Contains(err, <<"Unable", "to", "connect">>)
    THEN [status |-> 503, error |-> <<"Unable", "to", "connect", "to",
                                      "authentication", "service.">>]
    ELSE [status |-> 500, error |-> <<"Internal", "server", "error">>]

NoToken == Malformed
NotCalled ==
    [called |-> FALSE, err |-> <<>>, user |-> NoRow, table |-> <<>>,
     provider |-> FALSE, reads |-> 0, writes |-> 0]

LoginData(svc, token) ==
    [service |-> svc.called, err |-> svc.err, provider |-> svc.provider,
     reads |-> svc.reads, writes |-> svc.writes, user |-> svc.user,
     token |-> token]

\* POST /api/auth/pesu
LoginReq(ctype, parses, username, password, pr, dbSelect, dbWrite) ==
    LET req == [ctype |-> ctype, parses |-> parses, username |-> username,
                password |-> password, provider |-> pr, dbSelect |-> dbSelect,
                dbWrite |-> dbWrite]
    IN  IF ~ValidateJSON("POST", ctype)
        THEN /\ resp' = Response("Login", FALSE, 400,
                                 <<"Content-Type", "must", "be", "application/json">>,
                                 NoUser, req, LoginData(NotCalled, NoToken))
             /\ UNCHANGED users
        ELSE IF ~parses
        THEN /\ resp' = Response("Login", TRUE, 400, <<"Invalid", "request", "body">>,
                                 NoUser, req, LoginData(NotCalled, NoToken))
             /\ UNCHANGED users
        ELSE IF username = <<>> \/ password = <<>>
        THEN /\ resp' = Response("Login", TRUE, 400,
                                 <<"Username", "and", "password", "are", "required">>,
                                 NoUser, req, LoginData(NotCalled, NoToken))
             /\ UNCHANGED users
        ELSE LET svc == AuthenticateWithPESU(username, password, pr, dbSelect,
                                             dbWrite, now, users)
             IN  /\ users' = svc.table
                 /\ resp' =
                      IF svc.err # <<>>
                      THEN Response("Login", TRUE, LoginError(svc.err).status,
                                    LoginError(svc.err).error, NoUser, req,
                                    LoginData(svc, NoToken))
                      ELSE Response("Login", TRUE, 200, <<>>, NoUser, req,
                                    LoginData(svc, GenerateJWT(svc.user, now)))

\* UserService.UpdateUserProfile: patch the row with the given id
PatchRow(row, updates, t) ==
    [f \in DOMAIN row |->
        IF f = "updated_at" THEN t
        ELSE IF f \in DOMAIN updates THEN updates[f] ELSE row[f]]

\* UserHandler.UpdateProfile removes the protected keys from the payload
StripProtected(updates) ==
    [f \in DOMAIN updates \ {"id", "srn", "created_at", "verified", "rating"}
        |-> updates[f]]

\* PUT /api/profile/:id
UpdateProfileReq(hdr, ctype, id, b, db) ==
    LET auth == JWTAuth(hdr, now)
        req == [hdr |-> hdr, ctype |-> ctype, id |-> id, body |-> b, db |-> db]
        HasId(row) == row.id = id
    IN  IF ~auth.pass \/ ~ValidateJSON("PUT", ctype)
        THEN /\ resp' = Stopped("UpdateProfile", auth, req)
             /\ UNCHANGED users
        ELSE IF auth.userID # id
        THEN /\ resp' = Response("UpdateProfile", TRUE, 403,
                                 "You can only update your own profile",
                                 auth.userID, req, NoData)
             /\ UNCHANGED users
        ELSE IF ~b.parses
        THEN /\ resp' = Response("UpdateProfile", TRUE, 400, "Invalid request body",
                                 auth.userID, req, NoData)
             /\ UNCHANGED users
        ELSE IF db # "ok"
        THEN /\ resp' = Response("UpdateProfile", TRUE, 500,
                                 "Failed to update user profile", auth.userID,
                                 req, NoData)
             /\ UNCHANGED users
        ELSE IF SelectSeq(users, HasId) = <<>>
        THEN /\ resp' = Response("UpdateProfile", TRUE, 404, "User not found",
                                 auth.userID, req, NoData)
             /\ UNCHANGED users
        ELSE /\ users' = [i \in 1..Len(users) |->
                            IF users[i].id = id
                            THEN PatchRow(users[i], StripProtected(b.fields), now)
                            ELSE users[i]]
             /\ resp' = Response("UpdateProfile", TRUE, 200, "", auth.userID, req,
                                 [user |-> PatchRow(SelectSeq(users, HasId)[1],
                                                    StripProtected(b.fields), now)])

(* ------------------------- login specification ------------------------- *)
SrnLower == <<"p", "e", "s", "2", "u", "g", "2", "1", "e", "c", "0", "0", "2">>
Usernames ==
    {Srn1, SrnLower,
     <<" ">> \o Srn1,                      \* leading space
     Srn1 \o <<"9">>,                      \* one character too many
     SubSeq(Srn1, 1, 12),                  \* one too few
     [Srn1 EXCEPT ![3] = "X"],             \* wrong prefix
     [Srn1 EXCEPT ![5] = "1"],             \* digit where a letter belongs
     [Srn1 EXCEPT ![13] = "A"],            \* letter where a digit belongs
     <<>>}
Password == <<"p", "w">>
Passwords == {Password, <<" ">>, <<>>}
ProviderOutcomes ==
    {Provider(k, 1) : k \in {"transport", "status", "garbage", "denied", "noprofile"}}
    \cup {Provider("ok", v) : v \in {1, 2}}

\* a row that predates the process: ratings are kept by the hosted database
SeedUser ==
    [NewUser("u1", Profile(Srn1, 1), 0) EXCEPT
        !.rating = 4, !.bio = "seed bio", !.nickname = "seed"]

ProfilePatch ==
    [parses |-> TRUE,
     fields |-> [bio |-> "hello", avatar_url |-> "a.png", location |-> LocLab,
                 nickname |-> "nick"]]
ProfileBodies ==
    {ProfilePatch,
     [parses |-> TRUE, fields |-> [rating |-> 5, verified |-> FALSE]],
     [parses |-> FALSE, fields |-> [rating |-> 5]]}

AuthInit ==
    /\ now = 0
    /\ users \in {<<>>, <<SeedUser>>}
    /\ items = <<>>
    /\ messages = <<>>
    /\ blobs = <<>>
    /\ hits = 0
    /\ tasks = <<>>
    /\ resp = NoResponse

AuthFrame == UNCHANGED <<now, items, messages, blobs, hits, tasks>>

BadUsername == [Srn1 EXCEPT ![3] = "X"]

LoginRequests ==
    {<<"application/json", TRUE, u, Password, Provider("ok", 1), "ok", "ok">> :
        u \in Usernames}
    \cup {<<"application/json", TRUE, Srn1, pw, Provider("ok", 1), "ok", "ok">> :
        pw \in Passwords}
    \cup {<<"application/json", TRUE, u, Password, pr, "ok", "ok">> :
        u \in {Srn1, SrnLower, BadUsername}, pr \in ProviderOutcomes}
    \cup {<<c, ps, Srn1, Password, Provider("ok", 2), "ok", "ok">> :
        c \in ContentTypes, ps \in BOOLEAN}
    \cup {<<"application/json", TRUE, Srn1, Password, Provider("ok", 2), d1, d2>> :
        d1 \in DbOutcomes, d2 \in DbOutcomes}

AuthLogin ==
    /\ \E r \in LoginRequests :
          LoginReq(r[1], r[2], r[3], r[4], r[5], r[6], r[7])
    /\ AuthFrame

AuthUpdateProfile ==
    /\ \/ \E hdr \in Headers, id \in UserIds :
             UpdateProfileReq(hdr, "application/json", id, ProfilePatch, "ok")
       \/ \E b \in ProfileBodies, c \in ContentTypes :
             UpdateProfileReq(Bearer(SessionToken("u1")), c, "u1", b, "ok")
       \/ \E d \in DbOutcomes :
             UpdateProfileReq(Bearer(SessionToken("u2")), "application/json", "u2",
                              ProfilePatch, d)
    /\ AuthFrame

AuthNext == AuthLogin \/ AuthUpdateProfile

SpecAuth == AuthInit /\ [][AuthNext]_vars

(* ------------------------------ images --------------------------------- *)
(* A file's content is the sequence of its leading bytes, each written as   *)
(* the character it stands for or as two hex digits.                        *)
Wild == "??"
Signatures ==
    << [sig |-> <<"<", "h", "t", "m", "l">>, type |-> "text/html; charset=utf-8"],
       [sig |-> <<"%", "P", "D", "F", "-">>, type |-> "application/pdf"],
       [sig |-> <<"B", "M">>, type |-> "image/bmp"],
       [sig |-> <<"G", "I", "F", "8", "7", "a">>, type |-> "image/gif"],
       [sig |-> <<"G", "I", "F", "8", "9", "a">>, type |-> "image/gif"],
       [sig |-> <<"R", "I", "F", "F", Wild, Wild, Wild, Wild,
                  "W", "E", "B", "P", "V", "P">>, type |-> "image/webp"],
       [sig |-> <<"89", "P", "N", "G", "0D", "0A", "1A", "0A">>, type |-> "image/png"],
       [sig |-> <<"FF", "D8", "FF">>, type |-> "image/jpeg"],
       [sig |-> <<"R", "I", "F", "F", Wild, Wild, Wild, Wild,
                  "W", "A", "V", "E">>, type |-> "audio/wave"] >>

BinaryBytes == {"00", "01", "1A"}

HasSignature(data, sig) ==
    /\ Len(data) >= Len(sig)
    /\ \A k \in 1..Len(sig) : sig[k] = Wild \/ data[k] = sig[k]

\* http.DetectContentType: the first signature that matches, else text when
\* no byte is binary, else application/octet-stream
DetectContentType(data) ==
    LET found == {k \in 1..Len(Signatures) : HasSignature(data, Signatures[k].sig)}
    IN  IF found # {}
        THEN Signatures[CHOOSE k \in found : \A j \in found : k <= j].type
        ELSE IF \A k \in 1..Len(data) : data[k] \notin BinaryBytes
        THEN "text/plain; charset=utf-8"
        ELSE "application/octet-stream"

\* getExtensionFromContentType: "" stands for the unsupported-type error
GetExtensionWithGif(contentType) ==
    CASE contentType = "image/jpeg" -> ".jpg"
      [] contentType = "image/png" -> ".png"
      [] contentType = "image/webp" -> ".webp"
      [] contentType = "image/gif" -> ".gif"
      [] OTHER -> ""

GetExtensionFromContentType(contentType) ==
    CASE contentType = "image/jpeg" -> ".jpg"
      [] contentType = "image/png" -> ".png"
      [] contentType = "image/webp" -> ".webp"
      [] OTHER -> ""

\* validateImageFile: sniff the first 512 bytes
ValidateImageFile(file) ==
    LET buffer == SubSeq(file.bytes, 1, Min(SniffLen, Len(file.bytes)))
        contentType == DetectContentType(buffer)
        ext == GetExtensionFromContentType(contentType)
    IN  [ok |-> ext # "", contentType |-> IF ext # "" THEN contentType ELSE "",
         ext |-> ext]

File(name, declared, bytes, size) ==
    [name |-> name, declared |-> declared, bytes |-> bytes, size |-> size]

\* a stored object named without the random identifier
BlobFixedId(n, t, ext, contentType, file) ==
    [name |-> [uuid |-> 0, unix |-> t, ext |-> ext], contentType |-> contentType,
     bytes |-> file.bytes, size |-> file.size]

\* uploadToSupabase: the object stored under a generated name
Blob(n, t, ext, contentType, file) ==
    [name |-> [uuid |-> n, unix |-> t, ext |-> ext], contentType |-> contentType,
     bytes |-> file.bytes, size |-> file.size]

UploadState(urls, rejected, sent, store) ==
    [urls |-> urls, rejected |-> rejected, sent |-> sent, store |-> store]

\* the loop of UploadImage passing over a refused file without a word
RECURSIVE UploadLoopSilent(_, _, _, _, _)
UploadLoopSilent(files, io, k, t, acc) ==
    IF k > Len(files) THEN acc
    ELSE LET file == files[k]
             v == ValidateImageFile(file)
             blob == Blob(Len(acc.store) + 1, t, v.ext, v.contentType, file)
             call == [file |-> k, contentType |-> v.contentType, ext |-> v.ext]
         IN  IF file.size > MaxFileSize \/ io[k].open # "ok" \/ ~v.ok
             THEN UploadLoopSilent(files, io, k + 1, t, acc)
             ELSE IF io[k].upload # "ok"
             THEN UploadLoopSilent(files, io, k + 1, t,
                      [acc EXCEPT !.rejected =
                                      Append(@, [file |-> k, why |-> "upload failed"]),
                                  !.sent = Append(@, call)])
             ELSE UploadLoopSilent(files, io, k + 1, t,
                      [acc EXCEPT !.urls = Append(@, blob.name),
                                  !.sent = Append(@, call),
                                  !.store = Append(@, blob)])

\* the loop of UploadImage over the files from position k on; io[k] is what
\* opening file k and the storage call for it do
RECURSIVE UploadLoop(_, _, _, _, _)
UploadLoop(files, io, k, t, acc) ==
    IF k > Len(files) THEN acc
    ELSE LET file == files[k]
             v == ValidateImageFile(file)
             blob == Blob(Len(acc.store) + 1, t, v.ext, v.contentType, file)
             call == [file |-> k, contentType |-> v.contentType, ext |-> v.ext]
             Skip(why) == UploadLoop(files, io, k + 1, t,
                              [acc EXCEPT !.rejected =
                                  Append(@, [file |-> k, why |-> why])])
         IN  IF file.size > MaxFileSize THEN Skip("exceeds 5MB limit")
             ELSE IF io[k].open # "ok" THEN Skip("failed to open")
             ELSE IF ~v.ok THEN Skip("invalid image type")
             ELSE IF io[k].upload # "ok"
             THEN UploadLoop(files, io, k + 1, t,
                      [acc EXCEPT !.rejected =
                                      Append(@, [file |-> k, why |-> "upload failed"]),
                                  !.sent = Append(@, call)])
             ELSE UploadLoop(files, io, k + 1, t,
                      [acc EXCEPT !.urls = Append(@, blob.name),
                                  !.sent = Append(@, call),
                                  !.store = Append(@, blob)])

RECURSIVE SumSizes(_)
SumSizes(files) ==
    IF files = <<>> THEN 0 ELSE Head(files).size + SumSizes(Tail(files))

\* UploadImage without the check of the number of files
UploadImageReqNoMax(hdr, form, files, io) ==
    LET auth == JWTAuth(hdr, now)
        req == [hdr |-> hdr, form |-> form, files |-> files, io |-> io]
        out == UploadLoop(files, io, 1, now, UploadState(<<>>, <<>>, <<>>, blobs))
        Answer(ran, status, error, userID, result) ==
            Response("UploadImage", ran, status, error, userID, req,
                     [urls |-> result.urls, rejected |-> result.rejected,
                      sent |-> result.sent,
                      message |-> IF status = 200 /\ Len(result.rejected) > 0
                                  THEN "Uploaded some images, rejected others"
                                  ELSE ""])
        nothing == UploadState(<<>>, <<>>, <<>>, blobs)
    IN  IF SumSizes(files) > BodyLimit
        THEN /\ resp' = Answer(FALSE, 413, "Request Entity Too Large", NoUser, nothing)
             /\ UNCHANGED blobs
        ELSE IF ~auth.pass
        THEN /\ resp' = Answer(FALSE, auth.status, auth.error, NoUser, nothing)
             /\ UNCHANGED blobs
        ELSE IF form # "ok"
        THEN /\ resp' = Answer(TRUE, 400, "Failed to parse multipart form",
                               auth.userID, nothing)
             /\ UNCHANGED blobs
        ELSE IF Len(files) = 0
        THEN /\ resp' = Answer(TRUE, 400, "No images provided", auth.userID, nothing)
             /\ UNCHANGED blobs
        ELSE /\ Len(out.store) <= MaxBlobs
             /\ blobs' = out.store
             /\ resp' = IF Len(out.urls) = 0
                        THEN Answer(TRUE, 400,
                                    IF Len(out.rejected) > 0
                                    THEN "All images rejected"
                                    ELSE "Failed to upload any images",
                                    auth.userID, out)
                        ELSE Answer(TRUE, 200, "", auth.userID, out)

\* POST /api/items/upload-images
UploadImageReq(hdr, form, files, io) ==
    LET auth == JWTAuth(hdr, now)
        req == [hdr |-> hdr, form |-> form, files |-> files, io |-> io]
        out == UploadLoop(files, io, 1, now, UploadState(<<>>, <<>>, <<>>, blobs))
        Answer(ran, status, error, userID, result) ==
            Response("UploadImage", ran, status, error, userID, req,
                     [urls |-> result.urls, rejected |-> result.rejected,
                      sent |-> result.sent,
                      message |-> IF status = 200 /\ Len(result.rejected) > 0
                                  THEN "Uploaded some images, rejected others"
                                  ELSE ""])
        nothing == UploadState(<<>>, <<>>, <<>>, blobs)
    IN  IF SumSizes(files) > BodyLimit
        THEN /\ resp' = Answer(FALSE, 413, "Request Entity Too Large", NoUser, nothing)
             /\ UNCHANGED blobs
        ELSE IF ~auth.pass
        THEN /\ resp' = Answer(FALSE, auth.status, auth.error, NoUser, nothing)
             /\ UNCHANGED blobs
        ELSE IF form # "ok"
        THEN /\ resp' = Answer(TRUE, 400, "Failed to parse multipart form",
                               auth.userID, nothing)
             /\ UNCHANGED blobs
        ELSE IF Len(files) = 0
        THEN /\ resp' = Answer(TRUE, 400, "No images provided", auth.userID, nothing)
             /\ UNCHANGED blobs
        ELSE IF Len(files) > MaxImagesPerUpload
        THEN /\ resp' = Answer(TRUE, 400, "Maximum 5 images allowed per upload",
                               auth.userID, nothing)
             /\ UNCHANGED blobs
        ELSE /\ Len(out.store) <= MaxBlobs
             /\ blobs' = out.store
             /\ resp' = IF Len(out.urls) = 0
                        THEN Answer(TRUE, 400,
                                    IF Len(out.rejected) > 0
                                    THEN "All images rejected"
                                    ELSE "Failed to upload any images",
                                    auth.userID, out)
                        ELSE Answer(TRUE, 200, "", auth.userID, out)

\* an entry of the images array of a conversion request: a URL, or a data URI
\* with its comma-separated parts, the length of the base64 text, whether
\* that text decodes, and the bytes and size it decodes to
Url(u) ==
    [data |-> FALSE, url |-> u, parts |-> 1, b64len |-> 0, decodes |-> FALSE,
     bytes |-> <<>>, size |-> 0]
DataUri(parts, b64len, decodes, bytes, size) ==
    [data |-> TRUE, url |-> "", parts |-> parts, b64len |-> b64len,
     decodes |-> decodes, bytes |-> bytes, size |-> size]

ConvertedBlob(itemID, t, index, ext, contentType, img) ==
    [name |-> [item |-> itemID, unix |-> t, index |-> index, ext |-> ext],
     contentType |-> contentType, bytes |-> img.bytes, size |-> img.size]

\* the loop of ConvertBase64ToStorage over the images from position k on; the
\* storage service refuses an object name it already holds
RECURSIVE ConvertLoop(_, _, _, _, _, _)
ConvertLoop(images, itemID, io, k, t, acc) ==
    IF k > Len(images) THEN acc
    ELSE LET img == images[k]
             contentType == DetectContentType(
                                SubSeq(img.bytes, 1, Min(SniffLen, Len(img.bytes))))
             ext == GetExtensionFromContentType(contentType)
             blob == ConvertedBlob(itemID, t, k - 1, ext, contentType, img)
             call == [file |-> k, contentType |-> contentType, ext |-> ext]
             taken == \E j \in 1..Len(acc.store) : acc.store[j].name = blob.name
             Skip(why) == ConvertLoop(images, itemID, io, k + 1, t,
                              [acc EXCEPT !.rejected =
                                  Append(@, [file |-> k, why |-> why])])
         IN  IF ~img.data
             THEN ConvertLoop(images, itemID, io, k + 1, t,
                      [acc EXCEPT !.urls = Append(@, img.url)])
             ELSE IF img.parts # 2 THEN Skip("invalid format")
             ELSE IF img.b64len > MaxBase64Size THEN Skip("exceeds size limit")
             ELSE IF ~img.decodes THEN Skip("decode failed")
             ELSE IF img.size > MaxFileSize THEN Skip("decoded size exceeds 5MB")
             ELSE IF ext = "" THEN Skip("invalid image type")
             ELSE IF io[k].upload # "ok" \/ taken
             THEN ConvertLoop(images, itemID, io, k + 1, t,
                      [acc EXCEPT !.rejected =
                                      Append(@, [file |-> k, why |-> "upload failed"]),
                                  !.sent = Append(@, call)])
             ELSE ConvertLoop(images, itemID, io, k + 1, t,
                      [acc EXCEPT !.urls = Append(@, blob.name),
                                  !.sent = Append(@, call),
                                  !.store = Append(@, blob)])

RECURSIVE SumBase64(_)
SumBase64(images) ==
    IF images = <<>> THEN 0 ELSE Head(images).b64len + SumBase64(Tail(images))

\* POST /api/items/convert-images
ConvertImagesReq(hdr, ctype, parses, images, itemID, io) ==
    LET auth == JWTAuth(hdr, now)
        req == [hdr |-> hdr, ctype |-> ctype, parses |-> parses, images |-> images,
                item_id |-> itemID, io |-> io]
        nothing == UploadState(<<>>, <<>>, <<>>, blobs)
        out == ConvertLoop(images, itemID, io, 1, now, nothing)
        Answer(ran, status, error, userID, result) ==
            Response("ConvertImages", ran, status, error, userID, req,
                     [urls |-> result.urls, rejected |-> result.rejected,
                      sent |-> result.sent,
                      message |-> IF status = 200 /\ Len(result.rejected) > 0
                                  THEN "Converted some images, rejected others"
                                  ELSE ""])
    IN  IF SumBase64(images) > BodyLimit
        THEN /\ resp' = Answer(FALSE, 413, "Request Entity Too Large", NoUser, nothing)
             /\ UNCHANGED blobs
        ELSE IF ~auth.pass
        THEN /\ resp' = Answer(FALSE, auth.status, auth.error, NoUser, nothing)
             /\ UNCHANGED blobs
        ELSE IF ~ValidateJSON("POST", ctype)
        THEN /\ resp' = Answer(FALSE, 400, "Content-Type must be application/json",
                               auth.userID, nothing)
             /\ UNCHANGED blobs
        ELSE IF ~parses
        THEN /\ resp' = Answer(TRUE, 400, "Invalid request body", auth.userID, nothing)
             /\ UNCHANGED blobs
        ELSE IF Len(images) > MaxImagesPerUpload
        THEN /\ resp' = Answer(TRUE, 400, "Maximum 5 images allowed per conversion",
                               auth.userID, nothing)
             /\ UNCHANGED blobs
        ELSE /\ Len(out.store) <= MaxBlobs
             /\ blobs' = out.store
             /\ resp' = IF Len(out.urls) = 0
                        THEN Answer(TRUE, 400,
                                    IF Len(out.rejected) > 0
                                    THEN "All images rejected"
                                    ELSE "Failed to convert any images",
                                    auth.userID, out)
                        ELSE Answer(TRUE, 200, "", auth.userID, out)

(* ------------------------ image specification -------------------------- *)
Jpeg == File("a.jpg", "image/jpeg", <<"FF", "D8", "FF", "E0", "00">>, 1000)
PngAsGif == File("b.gif", "image/gif",
                 <<"89", "P", "N", "G", "0D", "0A", "1A", "0A", "00">>, 2000)
Webp == File("c.webp", "image/webp",
             <<"R", "I", "F", "F", "10", "00", "00", "00",
               "W", "E", "B", "P", "V", "P", "8">>, 3000)
GifAsJpeg == File("d.jpg", "image/jpeg", <<"G", "I", "F", "8", "9", "a", "01">>, 1000)
HtmlAsPng == File("e.png", "image/png", <<"<", "h", "t", "m", "l", ">">>, 1000)
Pdf == File("f.pdf", "application/pdf", <<"%", "P", "D", "F", "-", "1">>, 1000)
CutJpeg == File("g.jpg", "image/jpeg", <<"FF", "D8">>, 2)
Wave == File("h.webp", "image/webp",
             <<"R", "I", "F", "F", "10", "00", "00", "00", "W", "A", "V", "E">>, 1000)
Empty == File("i.png", "image/png", <<>>, 0)
Noise == File("j.png", "image/png", <<"00", "01", "FF", "D8", "FF">>, 1000)
Heavy == File("k.jpg", "image/jpeg", <<"FF", "D8", "FF", "E0", "00">>, BodyLimit + 1)

SampleFiles ==
    {Jpeg, PngAsGif, Webp, GifAsJpeg, HtmlAsPng, Pdf, CutJpeg, Wave, Empty, Noise,
     Heavy}

Io(open, upload) == [open |-> open, upload |-> upload]
AllOk(n) == [k \in 1..n |-> Io("ok", "ok")]

UploadRequests ==
    {<<Bearer(SessionToken("u1")), "ok", <<f>>, <<Io(o, u)>> >> :
        f \in SampleFiles, o \in DbOutcomes, u \in DbOutcomes}
    \cup {<<Bearer(SessionToken("u2")), "ok", <<f, g>>, <<Io("ok", u), Io("ok", "ok")>> >> :
        f \in {Jpeg, GifAsJpeg}, g \in {PngAsGif, HtmlAsPng, Webp}, u \in DbOutcomes}
    \cup {<<hdr, form, <<Jpeg>>, AllOk(1)>> : hdr \in Headers, form \in DbOutcomes}
    \cup {<<Bearer(SessionToken("u1")), "ok", [k \in 1..n |-> CutJpeg], AllOk(n)>> :
        n \in {0, MaxImagesPerUpload, MaxImagesPerUpload + 1}}

ImagesUpload ==
    /\ \E r \in UploadRequests : UploadImageReq(r[1], r[2], r[3], r[4])
    /\ UNCHANGED <<now, users, items, messages, hits, tasks>>

DataJpeg == DataUri(2, 1336, TRUE, Jpeg.bytes, Jpeg.size)
DataGif == DataUri(2, 1336, TRUE, GifAsJpeg.bytes, GifAsJpeg.size)

ConvertRequests ==
    {<<Bearer(SessionToken("u1")), "application/json", TRUE, <<img>>, item, <<Io("ok", u)>> >> :
        img \in {DataJpeg, DataGif, Url("https://cdn/x.jpg"),
                 DataUri(3, 1336, TRUE, Jpeg.bytes, Jpeg.size),
                 DataUri(2, 1336, FALSE, <<>>, 0),
                 DataUri(2, 1336, TRUE, Jpeg.bytes, MaxFileSize + 1)},
        item \in {"i1", ""}, u \in DbOutcomes}
    \cup {<<Bearer(SessionToken("u2")), "application/json", TRUE, <<DataJpeg, img>>, "i1",
            AllOk(2)>> : img \in {DataJpeg, DataGif, Url("https://cdn/x.jpg")}}
    \cup {<<hdr, c, ps, <<DataJpeg>>, "i2", AllOk(1)>> :
            hdr \in {NoHeader, Bearer(SessionToken("u1"))}, c \in ContentTypes,
            ps \in BOOLEAN}
    \cup {<<Bearer(SessionToken("u1")), "application/json", TRUE,
            [k \in 1..n |-> Url("https://cdn/x.jpg")], "i1", AllOk(n)>> :
            n \in {0, MaxImagesPerUpload + 1}}
    \cup {<<Bearer(SessionToken("u1")), "application/json", TRUE,
            <<DataUri(2, BodyLimit + 1, TRUE, Jpeg.bytes, Jpeg.size)>>, "i1", AllOk(1)>>}

ImagesConvert ==
    /\ \E r \in ConvertRequests :
          ConvertImagesReq(r[1], r[2], r[3], r[4], r[5], r[6])
    /\ UNCHANGED <<now, users, items, messages, hits, tasks>>

ImagesNext == ImagesUpload \/ ImagesConvert

SpecImages == Init /\ [][ImagesNext]_vars

(* ----------------------------- messages -------------------------------- *)
Null == NoClaim

\* the row SendMessage inserts: item_id is put in the row only when the request
\* names an item, and is NULL in the table otherwise
NoItem == "NULL"

NewMessage(id, senderID, b, t) ==
    [id |-> id, sender_id |-> senderID, receiver_id |-> b.receiver_id,
     item_id |-> IF b.item_id = "" THEN NoItem ELSE b.item_id,
     message |-> b.message, is_read |-> FALSE,
     created_at |-> t, read_at |-> Null]

\* the bytes of a PostgREST answer holding n rows: "[]" when there are none
JsonLen(n) == 2 + 40 * n

\* MessageService.validateMessageRequest: "" when the request may proceed
ValidateMessageRequest(b, dbValidate, table) ==
    LET HasId(row) == row.id = b.receiver_id
        data == JsonLen(Len(SelectSeq(table, HasId)))
    IN  IF dbValidate # "ok" THEN "failed to validate receiver"
        ELSE IF data = 0 THEN "receiver not found"
        ELSE ""

\* MessageService.SendMessage
SendMessageService(senderID, b, dbValidate, dbInsert, t, userTable, table) ==
    LET invalid == ValidateMessageRequest(b, dbValidate, userTable)
        message == NewMessage(Len(table) + 1, senderID, b, t)
    IN  IF invalid # "" THEN [err |-> invalid, table |-> table]
        ELSE IF dbInsert # "ok" THEN [err |-> "failed to send message", table |-> table]
        ELSE [err |-> "", table |-> Append(table, message)]

\* POST /api/messages
SendMessageReq(hdr, ctype, b, dbValidate, dbInsert) ==
    LET auth == JWTAuth(hdr, now)
        req == [hdr |-> hdr, ctype |-> ctype, body |-> b, dbValidate |-> dbValidate,
                dbInsert |-> dbInsert]
        out == SendMessageService(auth.userID, b, dbValidate, dbInsert, now, users,
                                  messages)
        Answer(status, error) ==
            Response("SendMessage", TRUE, status, error, auth.userID, req, NoData)
    IN  IF ~auth.pass \/ ~ValidateJSON("POST", ctype)
        THEN /\ resp' = Stopped("SendMessage", auth, req)
             /\ UNCHANGED messages
        ELSE IF ~b.parses
        THEN resp' = Answer(400, "Invalid request body") /\ UNCHANGED messages
        ELSE IF b.receiver_id = "" \/ Len(b.message) < 1 \/ Len(b.message) > 1000
        THEN resp' = Answer(400, "Validation failed") /\ UNCHANGED messages
        ELSE IF auth.userID = b.receiver_id
        THEN /\ resp' = Answer(400, "Cannot send message to yourself")
             /\ UNCHANGED messages
        ELSE /\ Len(out.table) <= MaxMessages
             /\ messages' = out.table
             /\ resp' =
                  IF out.err = "" THEN Answer(201, "")
                  ELSE IF out.err \in {"receiver not found", "item not found"}
                  THEN Answer(404, out.err)
                  ELSE IF out.err = "item is not active" THEN Answer(400, out.err)
                  ELSE Answer(500, "Failed to send message")

\* MessageService.MarkMessagesAsRead: stamp read_at on the rows sent by
\* otherUserID to userID about itemID that have no read_at yet
\* (the item filter is always applied, and no row with a NULL item equals it)
MarkMessagesAsReadAll(userID, otherUserID, itemID, t, table) ==
    [k \in 1..Len(table) |->
        IF /\ table[k].receiver_id = userID
           /\ table[k].sender_id = otherUserID
           /\ table[k].item_id # NoItem /\ table[k].item_id = itemID
        THEN [table[k] EXCEPT !.read_at = t]
        ELSE table[k]]

MarkMessagesAsRead(userID, otherUserID, itemID, t, table) ==
    [k \in 1..Len(table) |->
        IF /\ table[k].receiver_id = userID
           /\ table[k].sender_id = otherUserID
           /\ table[k].item_id # NoItem /\ table[k].item_id = itemID
           /\ table[k].read_at = Null
        THEN [table[k] EXCEPT !.read_at = t]
        ELSE table[k]]

\* PUT /api/messages/read
MarkAsReadReq(hdr, ctype, b, db) ==
    LET auth == JWTAuth(hdr, now)
        req == [hdr |-> hdr, ctype |-> ctype, body |-> b, db |-> db, at |-> now]
        Answer(status, error) ==
            Response("MarkAsRead", TRUE, status, error, auth.userID, req, NoData)
    IN  IF ~auth.pass \/ ~ValidateJSON("PUT", ctype)
        THEN /\ resp' = Stopped("MarkAsRead", auth, req)
             /\ UNCHANGED messages
        ELSE IF ~b.parses
        THEN resp' = Answer(400, "Invalid request body") /\ UNCHANGED messages
        ELSE IF b.other_user_id = "" \/ b.item_id = ""
        THEN resp' = Answer(400, "Validation failed") /\ UNCHANGED messages
        ELSE IF db # "ok"
        THEN /\ resp' = Answer(500, "Failed to mark messages as read")
             /\ UNCHANGED messages
        ELSE /\ messages' = MarkMessagesAsRead(auth.userID, b.other_user_id,
                                               b.item_id, now, messages)
             /\ resp' = Answer(200, "")

\* MessageService.GetMessages: rows whose sender is userID or whose receiver
\* is otherUserID, of the item when one is given, newest first, one page
GetMessagesService(userID, otherUserID, itemID, limit, offset, table) ==
    LET Wanted(row) ==
            /\ row.sender_id = userID \/ row.receiver_id = otherUserID
            /\ itemID # "" => row.item_id = itemID
    IN  Range(Order(SelectSeq(table, Wanted), "created_at"), offset,
              offset + limit - 1)

\* what the goroutine started by GetMessages holds: the three strings of its
\* call; returned records the ids the response carried, which the goroutine
\* itself never reads
Task(userID, otherUserID, itemID, rows) ==
    [userID |-> userID, otherUserID |-> otherUserID, itemID |-> itemID,
     returned |-> {rows[k].id : k \in 1..Len(rows)}]

\* GET /api/messages
GetMessagesReq(hdr, otherUserID, itemID, limitQ, offsetQ, db) ==
    LET auth == JWTAuth(hdr, now)
        req == [hdr |-> hdr, other_user_id |-> otherUserID, item_id |-> itemID,
                limit |-> limitQ, offset |-> offsetQ, db |-> db]
        page == ParsePagination(limitQ, offsetQ)
        rows == GetMessagesService(auth.userID, otherUserID, itemID, page.limit,
                                   page.offset, messages)
    IN  IF ~auth.pass
        THEN resp' = Stopped("GetMessages", auth, req) /\ UNCHANGED tasks
        ELSE IF otherUserID = ""
        THEN /\ resp' = Response("GetMessages", TRUE, 400, "other_user_id is required",
                                 auth.userID, req, NoData)
             /\ UNCHANGED tasks
        ELSE IF db # "ok"
        THEN /\ resp' = Response("GetMessages", TRUE, 500, "Failed to get messages",
                                 auth.userID, req, NoData)
             /\ UNCHANGED tasks
        ELSE /\ Len(tasks) < MaxTasks
             /\ tasks' = Append(tasks, Task(auth.userID, otherUserID, itemID, rows))
             /\ resp' = Response("GetMessages", TRUE, 200, "", auth.userID, req,
                                 [messages |-> rows])

\* the goroutine GetMessages starts: it runs after the handler has returned,
\* when the query strings it captured may already have been overwritten by the
\* next request served on the same connection
Captured(v, reused) == IF reused THEN "overwritten" ELSE v

BackgroundMarkAsRead(db, reused) ==
    /\ tasks # <<>>
    /\ tasks' = Tail(tasks)
    /\ messages' =
          IF db # "ok" THEN messages
          ELSE MarkMessagesAsRead(Head(tasks).userID,
                                  Captured(Head(tasks).otherUserID, reused),
                                  Captured(Head(tasks).itemID, reused), now, messages)
    /\ resp' = Response("BackgroundMarkAsRead", TRUE, 0, "", Head(tasks).userID,
                        [task |-> Head(tasks), db |-> db, reused |-> reused, at |-> now],
                        NoData)

\* MessageService.GetActiveChats with every chat pointing at the one variable
\* of the loop, which ends holding the last message read.
GetActiveChatsServiceShared(userID, shared, table) ==
    LET Mine(row) == row.sender_id = userID \/ row.receiver_id = userID
        rows == Order(SelectSeq(table, Mine), "created_at")
        Other(row) == IF row.sender_id = userID THEN row.receiver_id
                      ELSE row.sender_id
        firsts == {k \in 1..Len(rows) :
                      \A j \in 1..(k - 1) : Other(rows[j]) # Other(rows[k])}
    IN  {[id |-> <<userID, Other(rows[k])>>, user1_id |-> userID,
          user2_id |-> Other(rows[k]), last_message |-> rows[Len(rows)],
          updated_at |-> rows[k].created_at, unread_count |-> 0] : k \in firsts}

\* MessageService.GetActiveChats: one chat per counterpart, made from the
\* first message met for it in newest-first order.  Every chat keeps the
\* address of the loop variable: with a per-iteration variable (Go 1.22) that
\* is the message it was made from, with a shared one the last message read.
GetActiveChatsService(userID, shared, table) ==
    LET Mine(row) == row.sender_id = userID \/ row.receiver_id = userID
        rows == Order(SelectSeq(table, Mine), "created_at")
        Other(row) == IF row.sender_id = userID THEN row.receiver_id
                      ELSE row.sender_id
        firsts == {k \in 1..Len(rows) :
                      \A j \in 1..(k - 1) : Other(rows[j]) # Other(rows[k])}
    IN  {[id |-> <<userID, Other(rows[k])>>, user1_id |-> userID,
          user2_id |-> Other(rows[k]),
          last_message |-> IF shared THEN rows[Len(rows)] ELSE rows[k],
          updated_at |-> rows[k].created_at, unread_count |-> 0] : k \in firsts}

\* GET /api/active-chats
GetActiveChatsReq(hdr, db, shared) ==
    LET auth == JWTAuth(hdr, now)
        req == [hdr |-> hdr, db |-> db, shared |-> shared]
    IN  IF ~auth.pass
        THEN resp' = Stopped("GetActiveChats", auth, req)
        ELSE IF db # "ok"
        THEN resp' = Response("GetActiveChats", TRUE, 500, "Failed to get active chats",
                              auth.userID, req, NoData)
        ELSE resp' = Response("GetActiveChats", TRUE, 200, "", auth.userID, req,
                              [chats |-> GetActiveChatsService(auth.userID, shared,
                                                               messages)])

(* ----------------------- message specification ------------------------- *)
MessageBody(receiver, item, text) ==
    [parses |-> TRUE, receiver_id |-> receiver, item_id |-> item, message |-> text]
Hello == <<"h", "i">>
TooLong == [k \in 1..1001 |-> "x"]

Json(hdr, b) == <<hdr, "application/json", b, "ok", "ok">>

SendRequests ==
    {Json(Bearer(SessionToken("u1")), MessageBody(v, "i1", m)) :
        v \in {"u2", "u1", "u9", ""}, m \in {Hello}}
    \cup {Json(Bearer(SessionToken("u1")), MessageBody("u2", "i1", m)) :
        m \in {<<>>, TooLong}}
    \cup {Json(Bearer(SessionToken("u2")), MessageBody("u1", i, Hello)) :
        i \in {"i1", ""}}
    \cup {Json(NoHeader, MessageBody("u2", "i1", Hello)),
          Json(Bearer(SessionToken("u1")),
               [MessageBody("u2", "i1", Hello) EXCEPT !.parses = FALSE]),
          <<Bearer(SessionToken("u1")), "text/plain", MessageBody("u2", "i1", Hello),
            "ok", "ok">>,
          <<Bearer(SessionToken("u1")), "application/json",
            MessageBody("u2", "i1", Hello), "fail", "ok">>,
          <<Bearer(SessionToken("u1")), "application/json",
            MessageBody("u2", "i1", Hello), "ok", "fail">>}

ReadBody(other, item) == [parses |-> TRUE, other_user_id |-> other, item_id |-> item]

ReadRequests ==
    {<<Bearer(SessionToken("u2")), "application/json", ReadBody(v, i), "ok">> :
        v \in {"u1", ""}, i \in {"i1", "i2", ""}}
    \cup {<<Bearer(SessionToken("u1")), "application/json", ReadBody("u2", "i1"), "ok">>,
          <<NoHeader, "application/json", ReadBody("u1", "i1"), "ok">>,
          <<Bearer(SessionToken("u2")), "text/plain", ReadBody("u1", "i1"), "ok">>,
          <<Bearer(SessionToken("u2")), "application/json", ReadBody("u1", "i1"), "fail">>,
          <<Bearer(SessionToken("u2")), "application/json",
            [ReadBody("u1", "i1") EXCEPT !.parses = FALSE], "ok">>}

GetRequests ==
    {<<Bearer(SessionToken("u2")), "u1", "i1", Absent, Absent, "ok">>,
     <<Bearer(SessionToken("u1")), "u2", "", Num(1), Num(1), "ok">>,
     <<Bearer(SessionToken("u1")), "", "i1", Absent, Absent, "ok">>,
     <<Bearer(SessionToken("u2")), "u1", "i1", Absent, Absent, "fail">>,
     <<NoHeader, "u1", "i1", Absent, Absent, "ok">>}

MsgsFrame == UNCHANGED <<users, items, blobs, hits>>

MsgsSend ==
    /\ \E r \in SendRequests : SendMessageReq(r[1], r[2], r[3], r[4], r[5])
    /\ UNCHANGED <<now, tasks>>
    /\ MsgsFrame

MsgsMarkAsRead ==
    /\ \E r \in ReadRequests : MarkAsReadReq(r[1], r[2], r[3], r[4])
    /\ UNCHANGED <<now, tasks>>
    /\ MsgsFrame

MsgsGet ==
    /\ \E r \in GetRequests : GetMessagesReq(r[1], r[2], r[3], r[4], r[5], r[6])
    /\ UNCHANGED <<now, messages>>
    /\ MsgsFrame

MsgsBackground ==
    /\ \E d \in DbOutcomes, reused \in BOOLEAN : BackgroundMarkAsRead(d, reused)
    /\ UNCHANGED now
    /\ MsgsFrame

MsgsChats ==
    /\ \/ \E shared \in BOOLEAN :
             GetActiveChatsReq(Bearer(SessionToken("u1")), "ok", shared)
       \/ \E hdr \in {NoHeader, Bearer(SessionToken("u2"))} :
             GetActiveChatsReq(hdr, "fail", FALSE)
    /\ UNCHANGED <<now, messages, tasks>>
    /\ MsgsFrame

\* time passes between requests
MsgsTick ==
    /\ now < MaxMsgTicks * ClockStep
    /\ now' = now + ClockStep
    /\ UNCHANGED <<messages, tasks, resp>>
    /\ MsgsFrame

MsgsNext ==
    MsgsSend \/ MsgsMarkAsRead \/ MsgsGet \/ MsgsBackground \/ MsgsChats \/ MsgsTick

SpecMsgs == Init /\ [][MsgsNext]_vars

\* the two parties of one conversation writing to each other and marking
\* what they received as read, as time passes
ReadSend ==
    /\ \E r \in {Json(Bearer(SessionToken("u1")), MessageBody("u2", "i1", Hello)),
                  Json(Bearer(SessionToken("u2")), MessageBody("u1", "i1", Hello)),
                  Json(NoHeader, MessageBody("u2", "i1", Hello))} :
          SendMessageReq(r[1], r[2], r[3], r[4], r[5])
    /\ UNCHANGED <<now, tasks>>
    /\ MsgsFrame

ReadNext == ReadSend \/ MsgsMarkAsRead \/ MsgsTick

SpecRead == Init /\ [][ReadNext]_vars

(* ---------------------- token specification ---------------------------- *)
Principal(uid) == [id |-> uid, srn |-> SrnOf(uid)]
Times == {k * ClockStep : k \in 0..MaxTicks}

\* tokens as a client can present them: issued by this server at some earlier
\* time, or assembled by hand
CraftedTokens ==
    {Token(alg, key, Issuer, "u1", Srn1, exp, nbf) :
        alg \in {"HS256", "HS512", "none"}, key \in {JWTSecret, "other-secret"},
        exp \in {NoClaim, ClockStep, 2 * ClockStep},
        nbf \in {NoClaim, 0, 2 * ClockStep}}
    \cup {Token("HS256", JWTSecret, iss, uid, srn, TokenTTL, 0) :
        iss \in {Issuer, "someone-else"}, uid \in {"u2", ""}, srn \in {Srn2, <<>>}}

IssuedTokens(t) ==
    {GenerateJWT(Principal(u), t0) : u \in UserIds, t0 \in {x \in Times : x <= t}}
    \cup {RefreshJWT(Principal("u1"), t0) : t0 \in {x \in Times : x <= t}}

PresentedHeaders(t) ==
    {NoHeader, Bearer(Malformed), [prefix |-> "Basic ", token |-> SessionToken("u1")]}
    \cup {Bearer(tok) : tok \in CraftedTokens \cup IssuedTokens(t)}

\* a request to a route behind JWTAuth, as far as the middleware
Authenticate(hdr) ==
    LET auth == JWTAuth(hdr, now)
    IN  resp' = Response("JWTAuth", auth.pass, auth.status, auth.error,
                         auth.userID, [hdr |-> hdr, at |-> now],
                         [userSRN |-> auth.userSRN])

JwtRequest ==
    /\ \E hdr \in PresentedHeaders(now) : Authenticate(hdr)
    /\ UNCHANGED <<now, users, items, messages, blobs, hits, tasks>>

Tick ==
    /\ now < MaxTicks * ClockStep
    /\ now' = now + ClockStep
    /\ UNCHANGED <<users, items, messages, blobs, hits, tasks, resp>>

JwtNext == JwtRequest \/ Tick

SpecJWT == Init /\ [][JwtNext]_vars

(* ------------------------ route specification -------------------------- *)
(* Every route under /api is behind the body limit of the server and the    *)
(* rate limiter of the group before its own middleware runs.                *)
Refused(op, hdr, status, error) ==
    /\ resp' = Response(op, FALSE, status, error, NoUser, [hdr |-> hdr], NoData)
    /\ UNCHANGED <<users, items, messages, blobs, tasks, hits>>

\* size: the bytes of the request body; A: the route's own chain
RateLimit(op, hdr, size, A) ==
    IF size > BodyLimit THEN Refused(op, hdr, 413, "Request Entity Too Large")
    ELSE IF hits >= RateBudget
    THEN Refused(op, hdr, 429, "Rate limit exceeded. Please try again later.")
    ELSE hits' = hits + 1 /\ A

ExpiredToken == Token("HS256", JWTSecret, Issuer, "u1", Srn1, 0, NoClaim)
RouteHeaders ==
    {NoHeader, Bearer(Malformed), Bearer(ForgedToken("u1")), Bearer(ExpiredToken),
     [prefix |-> "Basic ", token |-> SessionToken("u1")],
     Bearer(Token("none", JWTSecret, Issuer, "u1", Srn1, TokenTTL, 0)),
     Bearer(Token("HS256", JWTSecret, "someone-else", "u1", Srn1, TokenTTL, 0)),
     Bearer(SessionToken("u1"))}

SeedItem == NewItem(1, CreateBody(TitleOk, 10, LocLab, "u1"), 0)
SeedMessage == NewMessage(1, "u2", MessageBody("u1", "i1", Hello), 0)

RoutesInit ==
    /\ now = 0
    /\ users = <<SeedUser>>
    /\ items = <<SeedItem>>
    /\ messages = <<SeedMessage>>
    /\ blobs = <<>>
    /\ hits = 0
    /\ tasks = <<>>
    /\ resp = NoResponse

RoutesCreate ==
    /\ \E hdr \in RouteHeaders :
          RateLimit("CreateItem", hdr, 0,
                    CreateItemReq(hdr, "application/json",
                                  CreateBody(TitleOk, 10, LocLab, "u1"), "ok"))
    /\ UNCHANGED <<now, users, messages, blobs, tasks>>

RoutesUpdate ==
    /\ \E hdr \in RouteHeaders :
          RateLimit("UpdateItem", hdr, 0,
                    UpdateItemReq(hdr, "application/json", 1,
                                  [parses |-> TRUE, fields |-> [price |-> 7]],
                                  "ok", "ok"))
    /\ UNCHANGED <<now, users, messages, blobs, tasks>>

RoutesDelete ==
    /\ \E hdr \in RouteHeaders :
          RateLimit("DeleteItem", hdr, 0, DeleteItemReq(hdr, 1, "ok", "ok"))
    /\ UNCHANGED <<now, users, messages, blobs, tasks>>

RoutesUpload ==
    /\ \E hdr \in RouteHeaders, f \in {Jpeg, Heavy} :
          RateLimit("UploadImage", hdr, f.size,
                    UploadImageReq(hdr, "ok", <<f>>, AllOk(1)))
    /\ UNCHANGED <<now, users, items, messages, tasks>>

RoutesConvert ==
    /\ \E hdr \in RouteHeaders :
          RateLimit("ConvertImages", hdr, DataJpeg.b64len,
                    ConvertImagesReq(hdr, "application/json", TRUE, <<DataJpeg>>,
                                     "i1", AllOk(1)))
    /\ UNCHANGED <<now, users, items, messages, tasks>>

RoutesProfile ==
    /\ \E hdr \in RouteHeaders :
          RateLimit("UpdateProfile", hdr, 0,
                    UpdateProfileReq(hdr, "application/json", "u1", ProfilePatch, "ok"))
    /\ UNCHANGED <<now, items, messages, blobs, tasks>>

RoutesSend ==
    /\ \E hdr \in RouteHeaders :
          RateLimit("SendMessage", hdr, 0,
                    SendMessageReq(hdr, "application/json",
                                   MessageBody("u2", "i1", Hello), "ok", "ok"))
    /\ UNCHANGED <<now, users, items, blobs, tasks>>

RoutesGetMessages ==
    /\ \E hdr \in RouteHeaders :
          RateLimit("GetMessages", hdr, 0,
                    /\ GetMessagesReq(hdr, "u2", "i1", Absent, Absent, "ok")
                    /\ UNCHANGED messages)
    /\ UNCHANGED <<now, users, items, blobs>>

RoutesMarkAsRead ==
    /\ \E hdr \in RouteHeaders :
          RateLimit("MarkAsRead", hdr, 0,
                    MarkAsReadReq(hdr, "application/json", ReadBody("u2", "i1"), "ok"))
    /\ UNCHANGED <<now, users, items, blobs, tasks>>

RoutesChats ==
    /\ \E hdr \in RouteHeaders :
          RateLimit("GetActiveChats", hdr, 0, GetActiveChatsReq(hdr, "ok", FALSE))
    /\ UNCHANGED <<now, users, items, messages, blobs, tasks>>

RoutesNext ==
    \/ RoutesCreate \/ RoutesUpdate \/ RoutesDelete \/ RoutesUpload \/ RoutesConvert
    \/ RoutesProfile \/ RoutesSend \/ RoutesGetMessages \/ RoutesMarkAsRead
    \/ RoutesChats

SpecRoutes == RoutesInit /\ [][RoutesNext]_vars

(* ------------------------ storage specification ------------------------ *)
(* Image requests of several files over a bucket that fills while the clock *)
(* moves on.                                                                *)
SixMiB == File("big.jpg", "image/jpeg", <<"FF", "D8", "FF", "E0", "00">>, 6291456)

StorageUploads ==
    {<<Bearer(SessionToken("u1")), "ok", fs, AllOk(Len(fs))>> :
        fs \in {<<SixMiB, Jpeg>>, <<Jpeg, GifAsJpeg, PngAsGif>>, <<GifAsJpeg, Pdf>>,
                <<Pdf, Pdf, Jpeg, Pdf, Noise>>,
                [k \in 1..(MaxImagesPerUpload + 1) |-> CutJpeg]}}
    \cup {<<Bearer(SessionToken("u2")), "ok", <<Pdf, Jpeg>>,
            <<Io("ok", "ok"), Io(o, u)>> >> : o \in DbOutcomes, u \in DbOutcomes}
    \cup {<<NoHeader, "ok", <<Jpeg>>, AllOk(1)>>,
          <<Bearer(SessionToken("u1")), "fail", <<Jpeg>>, AllOk(1)>>}

StorageUpload ==
    /\ \E r \in StorageUploads : UploadImageReq(r[1], r[2], r[3], r[4])
    /\ UNCHANGED <<now, users, items, messages, hits, tasks>>

CdnUrl == Url("https://cdn/x.jpg")

StorageConverts ==
    {<<Bearer(SessionToken("u1")), "application/json", TRUE, <<DataJpeg>>, item, AllOk(1)>> :
        item \in {"i1", "i2"}}
    \cup {<<Bearer(SessionToken("u1")), "application/json", TRUE, imgs, "i1",
            AllOk(Len(imgs))>> :
            imgs \in {<<CdnUrl, DataGif, DataJpeg>>, <<DataGif>>, <<>>,
                      [k \in 1..(MaxImagesPerUpload + 1) |-> DataGif]}}
    \cup {<<Bearer(SessionToken("u2")), "application/json", TRUE,
            <<DataJpeg, CdnUrl>>, "i1", <<Io("ok", "fail"), Io("ok", "ok")>> >>,
          <<NoHeader, "application/json", TRUE, <<DataJpeg>>, "i1", AllOk(1)>>,
          <<Bearer(SessionToken("u1")), "application/json", FALSE, <<>>, "i1", <<>> >>}

StorageConvert ==
    /\ \E r \in StorageConverts :
          ConvertImagesReq(r[1], r[2], r[3], r[4], r[5], r[6])
    /\ UNCHANGED <<now, users, items, messages, hits, tasks>>

StorageNext == StorageUpload \/ StorageConvert \/ Tick

SpecStorage == Init /\ [][StorageNext]_vars

(* ----------------------- catalog specification ------------------------- *)
(* Reading the catalog: single items, the filtered list and a seller's      *)
(* list, over a table that holds older rows with images next to the rows    *)
(* created through the API.                                                 *)

\* ItemService.GetItemByID: db is the outcome of the item query.  The seller
\* lookup and the image_urls copy add to the answer and change no field of it.
GetItemByID(itemID, db, table) ==
    IF db # "ok" THEN [err |-> "failed to get item", item |-> NoData]
    ELSE IF ~Exists(table, itemID) THEN [err |-> "item not found", item |-> NoData]
    ELSE [err |-> "", item |-> RowOf(table, itemID)]

\* GET /api/items/:id (public)
GetItemReq(itemID, db) ==
    LET r == GetItemByID(itemID, db, items)
        req == [id |-> itemID, db |-> db]
    IN  /\ UNCHANGED items
        /\ resp' =
             IF r.err = "item not found"
             THEN Response("GetItem", TRUE, 404, "Item not found", NoUser, req, NoData)
             ELSE IF r.err # ""
             THEN Response("GetItem", TRUE, 500, "Failed to get item", NoUser, req, NoData)
             ELSE Response("GetItem", TRUE, 200, "", NoUser, req, [item |-> r.item])

RECURSIVE SelectSeller(_, _)
SelectSeller(rows, sellerID) ==
    IF rows = <<>> THEN <<>>
    ELSE IF Head(rows).seller_id = sellerID
    THEN <<Head(rows)>> \o SelectSeller(Tail(rows), sellerID)
    ELSE SelectSeller(Tail(rows), sellerID)

\* ItemService.GetItemsBySeller
GetItemsBySeller(sellerID, limit, offset, db, table) ==
    LET ranged == Range(Order(SelectSeller(table, sellerID), "created_at"),
                        offset, offset + limit - 1)
    IN  IF db # "ok" THEN [err |-> "failed to get seller items", page |-> <<>>]
        ELSE [err |-> "",
              page |-> [i \in 1..Len(ranged) |-> ProcessItemImages(ranged[i])]]

\* GET /api/items/seller/:sellerId (public)
GetItemsBySellerReq(sellerID, limitQ, offsetQ, db) ==
    LET limit == Atoi(limitQ, 50)
        offset == Atoi(offsetQ, 0)
        r == GetItemsBySeller(sellerID,
                              IF limit <= 0 \/ limit > 100 THEN 50 ELSE limit,
                              IF offset < 0 THEN 0 ELSE offset, db, items)
        req == [seller |-> sellerID, limit |-> limitQ, offset |-> offsetQ, db |-> db]
    IN  /\ UNCHANGED items
        /\ resp' =
             IF r.err # ""
             THEN Response("GetItemsBySeller", TRUE, 500,
                           "Failed to retrieve seller items", NoUser, req, NoData)
             ELSE Response("GetItemsBySeller", TRUE, 200, "", NoUser, req,
                           [items |-> r.page])

TitleCube == <<"C", "u", "b", "e">>
TitleSpaces == <<" ", " ", " ">>
UrlA == Image(FALSE, 60)
UrlB == Image(FALSE, 61)
InlineSmall == Image(TRUE, 120)
InlineLarge == Image(TRUE, 900)
InlineHuge == Image(TRUE, 901)

\* rows written before the storage bucket existed, images inline
LampRow(id) ==
    [NewItem(id, CreateBody(TitleOk, 5, LocLab, "u1"), 0 - 2)
        EXCEPT !.images = <<UrlA, InlineLarge, InlineSmall, UrlB>>]
CubeRow(id) ==
    [NewItem(id, CreateBody(TitleCube, 9, LocLab, "u2"), 0 - 1)
        EXCEPT !.images = <<InlineLarge, InlineHuge, InlineSmall, UrlA>>]

CatalogInit ==
    /\ now = 0
    /\ users = <<>>
    /\ items \in {<<>>, <<LampRow(1)>>, <<CubeRow(1)>>,
                  <<LampRow(1), CubeRow(2)>>, <<CubeRow(1), LampRow(2)>>}
    /\ messages = <<>>
    /\ blobs = <<>>
    /\ hits = 0
    /\ tasks = <<>>
    /\ resp = NoResponse

CatalogBodies ==
    {CreateBody(TitlePadded, 5, LocBlank, "u1"),
     [CreateBody(TitleOk, 10, LocLab, "u1") EXCEPT !.images = <<InlineSmall, UrlA>>],
     CreateBody(TitleSpaces, 7, LocLab, "u1"),
     CreateBody(TitleOk, 5, <<>>, "u1"),
     CreateBody(TitleShort, 5, LocLab, "u1")}

CatalogCreate ==
    /\ \/ \E b \in CatalogBodies :
             CreateItemReq(Bearer(SessionToken("u1")), "application/json", b, "ok")
       \/ CreateItemReq(Bearer(SessionToken("u1")), "application/json",
                        CreateBody(TitleOk, 10, LocLab, "u1"), "fail")
    /\ ItemsFrame

CatalogGet ==
    /\ \E id \in ItemIds, db \in DbOutcomes : GetItemReq(id, db)
    /\ ItemsFrame

SortKeys == {"", "created_at", "price_asc", "price_desc", "title", "bogus"}

CatalogList ==
    /\ \E s \in SortKeys, l \in {Absent, Num(1)}, o \in {Absent, Num(1)} :
          GetItemsReq(l, o, [NoFilters EXCEPT !.sort = s], "ok", "ok")
    /\ ItemsFrame

CatalogSeller ==
    /\ \E s \in {"u1", "u2", "u3"}, l \in {Absent, Num(1), Num(101)},
          o \in {Absent, Num(1), Num(0 - 1)}, db \in DbOutcomes :
          GetItemsBySellerReq(s, l, o, db)
    /\ ItemsFrame

CatalogNext == CatalogCreate \/ CatalogGet \/ CatalogList \/ CatalogSeller

SpecCatalog == CatalogInit /\ [][CatalogNext]_vars

(* ------------------------- price specification ------------------------- *)
\* create and update requests whose payloads carry every sign of price
PriceSamples == {0 - 5, 0, 5, 10}

PriceCreates ==
    {[hdr |-> Bearer(SessionToken(u)), body |-> CreateBody(TitleOk, p, LocLab, u)] :
        u \in UserIds, p \in PriceSamples}
    \cup {[hdr |-> NoHeader, body |-> CreateBody(TitleOk, 5, LocLab, "u1")]}

PriceUpdates ==
    {[parses |-> TRUE, fields |-> [price |-> p]] : p \in {0 - 5, 0, 7}}

PricesCreate ==
    /\ \E r \in PriceCreates :
          CreateItemReq(r.hdr, "application/json", r.body, "ok")
    /\ ItemsFrame

PricesUpdate ==
    /\ \E u \in UserIds, id \in ItemIds, b \in PriceUpdates :
          UpdateItemReq(Bearer(SessionToken(u)), "application/json", id, b,
                        "ok", "ok")
    /\ ItemsFrame

PricesNext == PricesCreate \/ PricesUpdate

SpecPrices == Init /\ [][PricesNext]_vars

(* -------------------------- chat specification ------------------------- *)
\* one user writing to two counterparts and being written to, as time passes
ChatsSend ==
    /\ \E r \in {Json(Bearer(SessionToken("u1")), MessageBody("u2", "i1", Hello)),
                  Json(Bearer(SessionToken("u1")), MessageBody("u9", "i1", Hello)),
                  Json(Bearer(SessionToken("u2")), MessageBody("u1", "i1", Hello))} :
          SendMessageReq(r[1], r[2], r[3], r[4], r[5])
    /\ UNCHANGED <<now, tasks>>
    /\ MsgsFrame

\* the service as the Dockerfile builds it (golang:1.22): each iteration of
\* the loop has a variable of its own
ChatsList ==
    /\ \E hdr \in {NoHeader, Bearer(SessionToken("u1")), Bearer(SessionToken("u2"))},
          d \in DbOutcomes :
          GetActiveChatsReq(hdr, d, FALSE)
    /\ UNCHANGED <<now, messages, tasks>>
    /\ MsgsFrame

ChatsNext == ChatsSend \/ ChatsList \/ MsgsTick

SpecChats == Init /\ [][ChatsNext]_vars

(* ------------------------ limiter specification ------------------------ *)
(* Requests served concurrently inside one limiter window.  Each limiter    *)
(* reads and writes its own store under its mutex, so one check is one      *)
(* step; between the checks and the handler the requests interleave.  In    *)
(* this specification tasks is the bag of requests with the place each has  *)
(* reached, and hits holds the two stores.                                  *)
RateLimitMax == RateBudget + 2
MaxArrivals == RateLimitMax + 1

\* KeyGenerator of RateLimit: the X-Forwarded-For header when the request
\* carries one, the peer address otherwise
KeyGenerator(addr, forwarded) == IF forwarded # "" THEN forwarded ELSE addr

\* KeyGenerator of AuthRateLimit
AuthKeyGenerator(addr, forwarded) ==
    <<IF forwarded # "" THEN forwarded ELSE addr, "-auth">>

\* limiter.New: count the hit, and refuse when the hits of the key in the
\* window exceed max
Limiter(store, key, max) ==
    [store |-> [store EXCEPT ![key] = @ + 1], reached |-> store[key] + 1 > max]

Addresses == {"a1", "a2"}
LimiterKeys == Addresses \cup {"f1"}

\* requests as clients send them: address of the peer, X-Forwarded-For, route
LimiterRequests ==
    {[addr |-> "a1", forwarded |-> "", route |-> "auth"],
     [addr |-> "a1", forwarded |-> "f1", route |-> "auth"],
     [addr |-> "a1", forwarded |-> "", route |-> "items"],
     [addr |-> "a2", forwarded |-> "", route |-> "items"]}

At(r, pc) == [addr |-> r.addr, forwarded |-> r.forwarded, route |-> r.route,
              pc |-> pc]
Move(bag, t, pc) == (bag (-) SetToBag({t})) (+) SetToBag({At(t, pc)})

LimiterInit ==
    /\ now = 0
    /\ users = <<>>
    /\ items = <<>>
    /\ messages = <<>>
    /\ blobs = <<>>
    /\ hits = [general |-> [k \in LimiterKeys |-> 0],
               auth |-> [k \in {<<l, "-auth">> : l \in LimiterKeys} |-> 0]]
    /\ tasks = EmptyBag
    /\ resp = NoResponse

LimiterFrame == UNCHANGED <<now, users, items, messages, blobs>>

\* a request enters the /api group: apiGroup.Use(RateLimit())
LimiterArrive ==
    /\ BagCardinality(tasks) < MaxArrivals
    /\ \E r \in LimiterRequests :
          LET out == Limiter(hits.general, KeyGenerator(r.addr, r.forwarded),
                             RateLimitMax)
          IN  /\ hits' = [hits EXCEPT !.general = out.store]
              /\ IF out.reached
                 THEN /\ tasks' = tasks (+) SetToBag({At(r, "refused")})
                      /\ resp' = Response(r.route, FALSE, 429,
                                          "Rate limit exceeded. Please try again later.",
                                          NoUser, r, NoData)
                 ELSE /\ tasks' = tasks (+) SetToBag({At(r, IF r.route = "auth"
                                                           THEN "auth" ELSE "handler")})
                      /\ UNCHANGED resp
    /\ LimiterFrame

\* a request admitted to /api/auth reaches auth.Use(AuthRateLimit())
LimiterAuth ==
    /\ \E t \in BagToSet(tasks) :
          /\ t.pc = "auth"
          /\ LET out == Limiter(hits.auth, AuthKeyGenerator(t.addr, t.forwarded),
                                AuthRateLimitMax)
             IN  /\ hits' = [hits EXCEPT !.auth = out.store]
                 /\ IF out.reached
                    THEN /\ tasks' = Move(tasks, t, "refused")
                         /\ resp' = Response(t.route, FALSE, 429,
                                             "Too many authentication attempts. Please wait 15 minutes before trying again.",
                                             NoUser, t, NoData)
                    ELSE /\ tasks' = Move(tasks, t, "handler")
                         /\ UNCHANGED resp
    /\ LimiterFrame

\* the handler of the route answers a request that passed its limiters
LimiterServe ==
    /\ \E t \in BagToSet(tasks) :
          /\ t.pc = "handler"
          /\ tasks' = Move(tasks, t, "done")
          /\ resp' = Response(t.route, TRUE, 200, "", NoUser, t, NoData)
    /\ UNCHANGED hits
    /\ LimiterFrame

LimiterNext == LimiterArrive \/ LimiterAuth \/ LimiterServe

SpecLimiter == LimiterInit /\ [][LimiterNext]_vars

(* ------------------------ marking specification ------------------------ *)
\* two users writing to each other with and without an item, fetching the
\* conversation and marking it read
MarkSend ==
    /\ \E r \in {Json(Bearer(SessionToken("u1")), MessageBody("u2", "i1", Hello)),
                  Json(Bearer(SessionToken("u1")), MessageBody("u2", "", Hello)),
                  Json(Bearer(SessionToken("u2")), MessageBody("u1", "i1", Hello))} :
          SendMessageReq(r[1], r[2], r[3], r[4], r[5])
    /\ UNCHANGED <<now, tasks>>
    /\ MsgsFrame

MarkGet ==
    /\ \E r \in {<<Bearer(SessionToken("u2")), "u1", "">>,
                  <<Bearer(SessionToken("u2")), "u1", "i1">>,
                  <<Bearer(SessionToken("u1")), "u2", "">>} :
          GetMessagesReq(r[1], r[2], r[3], Absent, Absent, "ok")
    /\ UNCHANGED <<now, messages>>
    /\ MsgsFrame

MarkNext == MarkSend \/ MarkGet \/ MsgsBackground \/ MsgsMarkAsRead \/ MsgsTick

SpecMark == Init /\ [][MarkNext]_vars

(* ------------------------ sending specification ------------------------ *)
\* two registered users writing to each other, to themselves and to an id
\* that no user row has
SecondUser == NewUser("u2", Profile(Srn2, 1), 0)

SendInit ==
    /\ now = 0
    /\ users = <<SeedUser, SecondUser>>
    /\ items = <<>>
    /\ messages = <<>>
    /\ blobs = <<>>
    /\ hits = 0
    /\ tasks = <<>>
    /\ resp = NoResponse

SendSend ==
    /\ \/ \E u \in UserIds, v \in UserIds \cup {"u9"}, i \in {"i1", ""} :
             SendMessageReq(Bearer(SessionToken(u)), "application/json",
                            MessageBody(v, i, Hello), "ok", "ok")
       \/ \E v \in {"u2", "u9"}, d \in {<<"fail", "ok">>, <<"ok", "fail">>} :
             SendMessageReq(Bearer(SessionToken("u1")), "application/json",
                            MessageBody(v, "i1", Hello), d[1], d[2])
    /\ UNCHANGED <<now, tasks>>
    /\ MsgsFrame

SendNext == SendSend \/ MsgsTick

SpecSend == SendInit /\ [][SendNext]_vars

(* ------------------------ fetching specification ----------------------- *)
\* three users writing to each other, two of them fetching a conversation
FetchSend ==
    /\ \E r \in {<<"u1", "u2", "i1">>, <<"u2", "u1", "i1">>, <<"u3", "u1", "i1">>,
                  <<"u2", "u3", "">>} :
          SendMessageReq(Bearer(Token("HS256", JWTSecret, Issuer, r[1], Srn1,
                                      TokenTTL, 0)),
                         "application/json", MessageBody(r[2], r[3], Hello),
                         "ok", "ok")
    /\ UNCHANGED <<now, tasks>>
    /\ MsgsFrame

FetchGet ==
    /\ \E r \in {<<"u2", "u1", "">>, <<"u2", "u1", "i1">>, <<"u1", "u2", "i1">>},
          d \in DbOutcomes :
          GetMessagesReq(Bearer(SessionToken(r[1])), r[2], r[3], Absent, Absent, d)
    /\ UNCHANGED <<now, messages>>
    /\ MsgsFrame

FetchNext == FetchSend \/ FetchGet \/ MsgsBackground \/ MsgsTick

SpecFetch == Init /\ [][FetchNext]_vars

(* ----------------------- identity specification ------------------------ *)
(* The message handler of handlers/message_handler.go behind the message    *)
(* routes: JWTAuth admits the request, and the handler then reads the       *)
(* acting user from the X-User-ID header of the request.                    *)
\* MessageHandler.SendMessage (handlers/message_handler.go)
HeaderSendMessageReq(hdr, xUserID, ctype, b, dbValidate, dbInsert) ==
    LET auth == JWTAuth(hdr, now)
        req == [hdr |-> hdr, xUserID |-> xUserID, ctype |-> ctype, body |-> b,
                dbValidate |-> dbValidate, dbInsert |-> dbInsert]
        senderID == xUserID
        out == SendMessageService(senderID, b, dbValidate, dbInsert, now, users,
                                  messages)
        Answer(status, error) ==
            Response("SendMessage", TRUE, status, error, senderID, req, NoData)
    IN  IF ~auth.pass \/ ~ValidateJSON("POST", ctype)
        THEN /\ resp' = Stopped("SendMessage", auth, req)
             /\ UNCHANGED messages
        ELSE IF ~b.parses
        THEN resp' = Answer(400, "Invalid request body") /\ UNCHANGED messages
        ELSE IF b.receiver_id = "" \/ Len(b.message) < 1 \/ Len(b.message) > 1000
        THEN resp' = Answer(400, "Validation failed") /\ UNCHANGED messages
        ELSE IF senderID = ""
        THEN resp' = Answer(401, "Authentication required") /\ UNCHANGED messages
        ELSE IF senderID = b.receiver_id
        THEN /\ resp' = Answer(400, "Cannot send message to yourself")
             /\ UNCHANGED messages
        ELSE /\ Len(out.table) <= MaxMessages
             /\ messages' = out.table
             /\ resp' =
                  IF out.err = "" THEN Answer(201, "")
                  ELSE IF out.err \in {"receiver not found", "item not found"}
                  THEN Answer(404, out.err)
                  ELSE IF out.err = "item is not active" THEN Answer(400, out.err)
                  ELSE Answer(500, out.err)

\* MessageHandler.GetActiveChats (handlers/message_handler.go)
HeaderGetActiveChatsReq(hdr, xUserID, db, shared) ==
    LET auth == JWTAuth(hdr, now)
        req == [hdr |-> hdr, xUserID |-> xUserID, db |-> db, shared |-> shared]
        userID == xUserID
    IN  IF ~auth.pass
        THEN resp' = Stopped("GetActiveChats", auth, req)
        ELSE IF userID = ""
        THEN resp' = Response("GetActiveChats", TRUE, 401, "Authentication required",
                              userID, req, NoData)
        ELSE IF db # "ok"
        THEN resp' = Response("GetActiveChats", TRUE, 500, "Failed to get active chats",
                              userID, req, NoData)
        ELSE resp' = Response("GetActiveChats", TRUE, 200, "", userID, req,
                              [chats |-> GetActiveChatsService(userID, shared,
                                                               messages)])

XUserIDs == {"", "u1", "u2"}

IdentitySend ==
    /\ \E hdr \in {NoHeader, Bearer(SessionToken("u1")), Bearer(SessionToken("u2"))},
          x \in XUserIDs, v \in UserIds, d \in DbOutcomes :
          HeaderSendMessageReq(hdr, x, "application/json",
                               MessageBody(v, "i1", Hello), "ok", d)
    /\ UNCHANGED <<now, tasks>>
    /\ MsgsFrame

IdentityChats ==
    /\ \E hdr \in {NoHeader, Bearer(SessionToken("u1"))}, x \in XUserIDs,
          d \in DbOutcomes :
          HeaderGetActiveChatsReq(hdr, x, d, FALSE)
    /\ UNCHANGED <<now, messages, tasks>>
    /\ MsgsFrame

IdentityNext == IdentitySend \/ IdentityChats \/ MsgsTick

SpecIdentity == SendInit /\ [][IdentityNext]_vars

(* ------------------------- login specification ------------------------- *)
(* UpsertUser as the two calls to the data service it is made of, so that   *)
(* the calls of concurrent requests interleave.  In this specification      *)
(* tasks holds the logins that have looked the user up and not yet written. *)
MaxUsers == MaxTasks + 1

\* UpsertUser, first call: the rows with the SRN of the profile
UpsertLookup(profile, table) ==
    LET HasSrn(row) == row.srn = profile.srn
    IN  SelectSeq(table, HasSrn)

\* UpsertUser, second call: update the row found by the lookup with the local
\* fields the lookup saw, or insert a new row when the lookup found none
UpsertStore(existing, profile, dbWrite, t, table) ==
    IF Len(existing) > 0
    THEN LET updated == RefreshedUser(existing[1], profile, t)
         IN  IF dbWrite # "ok"
             THEN Upsert(<<"failed", "to", "update", "user">>, NoRow, table, 1, 1)
             ELSE Upsert(<<>>, updated,
                         [i \in 1..Len(table) |->
                             IF table[i].id = existing[1].id THEN updated
                             ELSE table[i]], 1, 1)
    ELSE LET created == NewUser(UserIdAt(Len(table) + 1), profile, t)
         IN  IF dbWrite # "ok"
             THEN Upsert(<<"failed", "to", "create", "user">>, NoRow, table, 1, 1)
             ELSE Upsert(<<>>, created, Append(table, created), 1, 1)

Without(seq, i) == [k \in 1..(Len(seq) - 1) |-> IF k < i THEN seq[k] ELSE seq[k + 1]]

LoginsFrame == UNCHANGED <<now, items, messages, blobs, hits>>

\* a login authenticated by the provider looks its user up
LoginsLookup ==
    /\ Len(tasks) < MaxTasks + 1
    /\ \E profile \in {Profile(Srn1, 1), Profile(Srn1, 2)}, d \in DbOutcomes :
              IF d # "ok"
              THEN /\ resp' = Response("Login", TRUE, 500,
                                       <<"failed", "to", "check", "existing", "user">>,
                                       NoUser, [profile |-> profile, dbSelect |-> d],
                                       NoData)
                   /\ UNCHANGED tasks
              ELSE /\ tasks' = Append(tasks, [profile |-> profile,
                                              existing |-> UpsertLookup(profile, users)])
                   /\ UNCHANGED resp
    /\ UNCHANGED users
    /\ LoginsFrame

\* one of the logins in flight writes its row
LoginsStore ==
    /\ \E i \in 1..Len(tasks), d \in DbOutcomes :
          LET out == UpsertStore(tasks[i].existing, tasks[i].profile, d, now, users)
          IN  /\ Len(out.table) <= MaxUsers
              /\ users' = out.table
              /\ tasks' = Without(tasks, i)
              /\ resp' = Response("Login", TRUE, IF out.err = <<>> THEN 200 ELSE 500,
                                  out.err, NoUser, [task |-> tasks[i], dbWrite |-> d],
                                  [user |-> out.user])
    /\ LoginsFrame

LoginsUpdateProfile ==
    /\ \/ \E u \in UserIds :
             UpdateProfileReq(Bearer(SessionToken(u)), "application/json", u,
                              ProfilePatch, "ok")
       \/ UpdateProfileReq(Bearer(SessionToken("u1")), "application/json", "u1",
                           ProfilePatch, "fail")
    /\ UNCHANGED tasks
    /\ LoginsFrame

LoginsNext == LoginsLookup \/ LoginsStore \/ LoginsUpdateProfile

SpecLogins == Init /\ [][LoginsNext]_vars

(* ----------------------- background specification ---------------------- *)
\* one user writing to another who fetches the conversation page by page,
\* while the marking started by a fetch runs at any later moment
BackgroundSend ==
    /\ \E i \in {"i1", ""} :
          SendMessageReq(Bearer(SessionToken("u1")), "application/json",
                         MessageBody("u2", i, Hello), "ok", "ok")
    /\ UNCHANGED <<now, tasks>>
    /\ MsgsFrame

BackgroundGet ==
    /\ \E item \in {"i1", ""}, limitQ \in {Absent, Num(1)}, offsetQ \in {Absent, Num(1)},
          d \in DbOutcomes :
          GetMessagesReq(Bearer(SessionToken("u2")), "u1", item, limitQ, offsetQ, d)
    /\ UNCHANGED <<now, messages>>
    /\ MsgsFrame

BackgroundNext == BackgroundSend \/ BackgroundGet \/ MsgsBackground \/ MsgsTick

SpecBackground == Init /\ [][BackgroundNext]_vars

(* ------------------------------ claims --------------------------------- *)
WellFormedMutation(r) ==
    /\ r.ran
    /\ r.req.dbSelect = "ok" /\ r.req.dbUpdate = "ok"
    /\ (r.op = "UpdateItem" => r.req.body.parses)

\* C1: a well-formed PUT or DELETE on an existing item by an authenticated
\* user who is not the stored owner is answered with 403 and leaves the
\* items table as it was.
C1_NonOwnerForbidden ==
    [][(/\ resp'.op \in {"UpdateItem", "DeleteItem"}
        /\ WellFormedMutation(resp')
        /\ Exists(items, resp'.req.id)
        /\ RowOf(items, resp'.req.id).seller_id # resp'.userID)
       => (resp'.status = 403 /\ items' = items)]_vars

\* the limit a numeric query value is clamped to, read as clamp(limit, 1, 50)
Clamp(n, lo, hi) == IF n < lo THEN lo ELSE IF n > hi THEN hi ELSE n

EffectiveLimit(q) ==
    IF q.kind # "int" THEN 12
    ELSE IF q.n > 50 THEN 50 ELSE IF q.n < 1 THEN 12 ELSE q.n

C5_ForeignSellerForbidden ==
    [][(/\ resp'.op = "CreateItem" /\ resp'.ran
        /\ resp'.req.body.seller_id # resp'.userID)
       => (resp'.status = 403 /\ items' = items)]_vars

\* C5 (amended): a POST /api/items that reaches the handler with a body that
\* passes validation and names a seller_id other than the authenticated
\* identity is answered with 403 and creates nothing; a POST creates at most
\* one item, only with status 201, and the created row's seller_id is the
\* identity of the request's token.
C5_CreatedByOwner ==
    [][(resp'.op = "CreateItem")
       => /\ (/\ resp'.ran /\ resp'.req.body.parses
              /\ ValidateCreate(resp'.req.body) = {}
              /\ resp'.req.body.seller_id # resp'.userID)
             => (resp'.status = 403 /\ items' = items)
          /\ (items' # items)
             => /\ resp'.status = 201 /\ resp'.userID # NoUser
                /\ Len(items') = Len(items) + 1
                /\ SubSeq(items', 1, Len(items)) = items
                /\ items'[Len(items')].seller_id = resp'.userID]_vars

C5_Witness ==
    /\ resp.op = "CreateItem" /\ resp.status = 403
    /\ resp.req.body.seller_id # resp.userID
    /\ ValidateCreate(resp.req.body) = {}
    /\ \E i \in 1..Len(items) : items[i].seller_id = resp.userID

\* C2: a login whose username does not have the SRN shape (PES, one digit,
\* two letters, two digits, two letters, three digits, letters in either
\* case) fails in AuthenticateWithPESU with 'invalid SRN format'; the identity
\* provider is not called and no user record is read or written.
SrnShape == <<"P", "E", "S", "d", "a", "a", "d", "d", "a", "a", "d", "d", "d">>
IsLetter(c) ==
    \E k \in 1..Len(Upper) : Upper[k] = c \/ Lower[k] = c
FitsSrnShape(s) ==
    /\ Len(s) = Len(SrnShape)
    /\ \A k \in 1..Len(SrnShape) :
          IF SrnShape[k] = "d" THEN s[k] \in Digits
          ELSE IF SrnShape[k] = "a" THEN IsLetter(s[k])
          ELSE ToUpperChar(s[k]) = SrnShape[k]

C2_BadSrnStopsLogin ==
    [][(/\ resp'.op = "Login"
        /\ resp'.data.service
        /\ ~FitsSrnShape(resp'.req.username))
       => (/\ resp'.data.err = <<"invalid", "SRN", "format">>
           /\ ~resp'.data.provider
           /\ resp'.data.reads = 0
           /\ resp'.data.writes = 0
           /\ resp'.data.token = NoToken
           /\ users' = users)]_vars

C2_Witness ==
    /\ resp.op = "Login"
    /\ resp.data.service
    /\ ~FitsSrnShape(resp.req.username)
    /\ Len(resp.req.username) >= Len(SrnShape)
    /\ resp.req.provider.kind = "ok"
    /\ users # <<>>

\* C8: a successful login for an SRN that already has a record keeps the
\* record's id, created_at, bio, avatar, rating, location and nickname and
\* sets the provider-sourced fields to the profile just returned; a first
\* login adds a record with empty bio and avatar, rating 0, verified and the
\* default location.
WithSrn(table, srn) ==
    LET HasSrn(row) == row.srn = srn
    IN  SelectSeq(table, HasSrn)

ProviderFields ==
    {"name", "prn", "srn", "program", "branch", "semester", "section", "email",
     "phone", "campus_code", "campus"}
LocalFields ==
    {"id", "created_at", "bio", "avatar_url", "rating", "location", "nickname"}

C8_LoginKeepsLocalFields ==
    [][(resp'.op = "Login" /\ resp'.status = 200)
       => LET srn == ToUpper(resp'.req.username)
              before == WithSrn(users, srn)
              after == WithSrn(users', srn)
              profile == Profile(srn, resp'.req.provider.v)
          IN  /\ Len(after) = 1
              /\ Len(users') = Len(users) + (IF before = <<>> THEN 1 ELSE 0)
              /\ \A f \in ProviderFields : after[1][f] = profile[f]
              /\ after[1].verified
              /\ resp'.data.user = after[1]
              /\ IF before # <<>>
                 THEN \A f \in LocalFields : after[1][f] = before[1][f]
                 ELSE /\ after[1].bio = ""
                      /\ after[1].avatar_url = ""
                      /\ after[1].rating = 0
                      /\ after[1].location = DefaultLocation]_vars

C8_Witness ==
    /\ resp.op = "Login"
    /\ resp.status = 200
    /\ resp.data.user.bio = "hello"
    /\ resp.data.user.nickname = "nick"
    /\ resp.data.user.rating = 4
    /\ resp.data.user.semester = 2
    /\ Len(users) = 2

\* C9: when the call to the identity provider fails in transport or returns a
\* status other than 200 the login answers 503; when the provider answers
\* status:false the login answers 401 with 'authentication failed' and the
\* provider's message; in all three no user record is written and no token is
\* issued.
C9_ProviderFailureStatus ==
    (/\ resp.op = "Login"
     /\ resp.data.provider
     /\ resp.req.provider.kind \in {"transport", "status", "denied"})
    => /\ resp.data.writes = 0
       /\ resp.data.token = NoToken
       /\ IF resp.req.provider.kind = "denied"
          THEN /\ resp.status = 401
               /\ Contains(resp.error, <<"authentication", "failed">>)
               /\ Contains(resp.error, DeniedMessage)
          ELSE resp.status = 503

\* C7 (as stated): JWTAuth lets a request through exactly when its bearer
\* token is signed with HS256 under the configured secret, has not expired,
\* carries the issuer 'pesxchange-backend' and has a non-empty user id and SRN.
Listed(hdr, t) ==
    /\ hdr.prefix = "Bearer "
    /\ hdr.token.wellformed
    /\ hdr.token.alg = "HS256"
    /\ hdr.token.key = JWTSecret
    /\ (hdr.token.exp = NoClaim \/ t < hdr.token.exp)
    /\ hdr.token.iss = Issuer
    /\ hdr.token.uid # ""
    /\ hdr.token.srn # <<>>

C7_PassIffListed ==
    resp.op = "JWTAuth" => (resp.ran <=> Listed(resp.req.hdr, resp.req.at))

\* C7 (amended): JWTAuth lets a request through exactly when the token meets
\* the listed conditions and, if it carries a not-before time, that time has
\* been reached; the identity in the context is then the token's user id and
\* SRN; a token issued by GenerateJWT at time t0 passes at every time from t0
\* up to but excluding t0 + 24h and at no later time.
C7_PassIffListedAndStarted ==
    resp.op = "JWTAuth" =>
        LET hdr == resp.req.hdr
            at == resp.req.at
        IN  /\ resp.ran <=>
                  /\ Listed(hdr, at)
                  /\ (hdr.token.nbf = NoClaim \/ hdr.token.nbf <= at)
            /\ resp.ran => /\ resp.userID = hdr.token.uid
                           /\ resp.data.userSRN = hdr.token.srn
            /\ ~resp.ran => resp.status = 401 /\ resp.userID = NoUser
            /\ \A u \in UserIds, t0 \in Times :
                  (t0 <= at /\ hdr = Bearer(GenerateJWT(Principal(u), t0)))
                  => (resp.ran <=> at < t0 + 24)

C7_Witness ==
    /\ resp.op = "JWTAuth"
    /\ resp.ran
    /\ resp.req.at = 2 * ClockStep
    /\ resp.req.hdr = Bearer(GenerateJWT(Principal("u2"), ClockStep))
    /\ resp.userID = "u2"

\* C3: in UploadImage a file whose leading bytes are not those of a JPEG, a
\* PNG or a WEBP image is rejected whatever its name and declared type say,
\* and no storage call is made for it; every storage call carries the type
\* and extension given by the file's leading bytes, and only those calls add
\* objects to the blob store.
StartsWith(data, prefix) ==
    Len(data) >= Len(prefix) /\ SubSeq(data, 1, Len(prefix)) = prefix

SniffedImage(data) ==
    IF StartsWith(data, <<"FF", "D8", "FF">>) THEN "image/jpeg"
    ELSE IF StartsWith(data, <<"89", "P", "N", "G", "0D", "0A", "1A", "0A">>)
    THEN "image/png"
    ELSE IF /\ StartsWith(data, <<"R", "I", "F", "F">>)
            /\ Len(data) >= 14
            /\ SubSeq(data, 9, 14) = <<"W", "E", "B", "P", "V", "P">>
    THEN "image/webp"
    ELSE "none"

ExtensionOf(type) ==
    IF type = "image/jpeg" THEN ".jpg"
    ELSE IF type = "image/png" THEN ".png"
    ELSE ".webp"

C3_OnlySniffedImagesStored ==
    [][(resp'.op = "UploadImage" /\ resp'.ran)
       => LET files == resp'.req.files
              sent == resp'.data.sent
              urls == resp'.data.urls
              rejected == resp'.data.rejected
              added == SubSeq(blobs', Len(blobs) + 1, Len(blobs'))
          IN  /\ \A k \in 1..Len(files) :
                    SniffedImage(files[k].bytes) = "none"
                    => /\ \A c \in 1..Len(sent) : sent[c].file # k
                       /\ resp'.status = 200
                          => \E j \in 1..Len(rejected) : rejected[j].file = k
              /\ \A c \in 1..Len(sent) :
                    /\ sent[c].contentType = SniffedImage(files[sent[c].file].bytes)
                    /\ sent[c].ext = ExtensionOf(sent[c].contentType)
              /\ Len(blobs') >= Len(blobs)
              /\ SubSeq(blobs', 1, Len(blobs)) = blobs
              /\ Len(added) = Len(urls)
              /\ Len(added) <= Len(sent)
              /\ \A b \in 1..Len(added) :
                    /\ added[b].name = urls[b]
                    /\ added[b].contentType = SniffedImage(added[b].bytes)
                    /\ added[b].name.ext = ExtensionOf(added[b].contentType)]_vars

C3_Witness ==
    /\ resp.op = "UploadImage"
    /\ resp.status = 200
    /\ Len(resp.req.files) = 2
    /\ resp.req.files[1].declared = "image/jpeg"
    /\ SniffedImage(resp.req.files[1].bytes) = "none"
    /\ resp.req.files[2].declared = "image/gif"
    /\ Len(resp.data.sent) = 1
    /\ resp.data.sent[1].contentType = "image/png"

\* C10: MarkMessagesAsRead is idempotent: a call leaves every message that
\* already had a read time exactly as it was, read time included, and a
\* second call with the same arguments, at whatever later time, changes
\* nothing more.
C10_MarkAsReadIdempotent ==
    [][(resp'.op = "MarkAsRead" /\ resp'.status = 200)
       => LET b == resp'.req.body
          IN  /\ Len(messages') = Len(messages)
              /\ \A k \in 1..Len(messages) :
                    messages[k].read_at # Null => messages'[k] = messages[k]
              /\ \A t \in Times :
                    t >= now => MarkMessagesAsRead(resp'.userID, b.other_user_id,
                                                   b.item_id, t, messages') = messages'
              /\ (/\ resp.op = "MarkAsRead"
                  /\ resp.status = 200
                  /\ resp.userID = resp'.userID
                  /\ resp.req.body = b)
                 => messages' = messages]_vars

C10_Witness ==
    /\ resp.op = "MarkAsRead"
    /\ resp.status = 200
    /\ \E k \in 1..Len(messages) :
          /\ messages[k].receiver_id = resp.userID
          /\ messages[k].sender_id = resp.req.body.other_user_id
          /\ messages[k].item_id = resp.req.body.item_id
          /\ messages[k].read_at # Null
          /\ messages[k].read_at < resp.req.at

\* C6 (as stated): a request to a protected route whose Authorization header
\* holds no valid bearer token is answered 401, its handler is not run, and
\* the data store and the blob store are left as they were.
ProtectedOps ==
    {"CreateItem", "UpdateItem", "DeleteItem", "UploadImage", "ConvertImages",
     "UpdateProfile", "SendMessage", "GetMessages", "MarkAsRead", "GetActiveChats"}

ValidBearer(hdr, t) ==
    /\ Listed(hdr, t)
    /\ (hdr.token.nbf = NoClaim \/ hdr.token.nbf <= t)

C6_NoTokenIs401 ==
    [][(resp'.op \in ProtectedOps /\ ~ValidBearer(resp'.req.hdr, now))
       => (/\ resp'.status = 401
           /\ ~resp'.ran
           /\ UNCHANGED <<users, items, messages, blobs>>)]_vars

\* C6 (amended): such a request is answered 413 when its body exceeds the
\* server's body limit, else 429 when the client's rate budget is used up,
\* else 401; in every case its handler is not run and the data store, the
\* blob store and the pending background work are left as they were.
C6_NoTokenNeverRuns ==
    [][(resp'.op \in ProtectedOps /\ ~ValidBearer(resp'.req.hdr, now))
       => (/\ resp'.status \in {401, 413, 429}
           /\ resp'.status = 429 => hits >= RateBudget
           /\ (hits < RateBudget /\ resp'.status # 413) => resp'.status = 401
           /\ ~resp'.ran
           /\ resp'.userID = NoUser
           /\ UNCHANGED <<users, items, messages, blobs, tasks>>)]_vars

C6_Witness ==
    /\ resp.op = "SendMessage"
    /\ resp.status = 401
    /\ resp.req.hdr = Bearer(ExpiredToken)
    /\ hits = RateBudget
    /\ Len(messages) > 1

\* C11 as stated: after a successful create, GetItemByID of the returned id
\* returns the title, price and condition of the request as they were sent.
C11_RoundTripVerbatim ==
    (resp.op = "CreateItem" /\ resp.status = 201)
    => LET got == GetItemByID(resp.data.item.id, "ok", items)
       IN  /\ got.err = ""
           /\ got.item.title = resp.req.body.title
           /\ got.item.price = resp.req.body.price
           /\ got.item.condition = resp.req.body.condition

\* C11 (amended): after a successful create, GetItemByID of the returned id
\* returns the request's price and condition and the request's title with
\* the white space around it removed; and every successful GET /api/items/:id
\* returns the stored row of that id.
C11_RoundTripTrimmed ==
    /\ (resp.op = "CreateItem" /\ resp.status = 201)
       => LET got == GetItemByID(resp.data.item.id, "ok", items)
          IN  /\ got.err = ""
              /\ got.item = resp.data.item
              /\ got.item.title = TrimSpace(resp.req.body.title)
              /\ got.item.price = resp.req.body.price
              /\ got.item.condition = resp.req.body.condition
    /\ (resp.op = "GetItem" /\ resp.status = 200)
       => /\ resp.data.item.id = resp.req.id
          /\ \E i \in 1..Len(items) : items[i] = resp.data.item

C11_Witness ==
    /\ resp.op = "CreateItem" /\ resp.status = 201
    /\ resp.req.body.title = TitlePadded
    /\ GetItemByID(resp.data.item.id, "ok", items).item.title = TitleOk
    /\ Len(items) > 1

\* C17: the page of a successful GET /api/items is ordered by the requested
\* sort key: price_asc by non-decreasing price, price_desc by non-increasing
\* price, title by ascending title, and any other or no key newest first.
SortedBy(page, key) ==
    \A i \in 1..Len(page), j \in 1..Len(page) :
        i < j =>
            CASE key = "price_asc" -> page[i].price <= page[j].price
              [] key = "price_desc" -> page[i].price >= page[j].price
              [] key = "title" -> ~LexLess(page[j].title, page[i].title)
              [] OTHER -> page[i].created_at >= page[j].created_at

C17_PageOrdered ==
    (resp.op = "GetItems" /\ resp.status = 200)
    => SortedBy(resp.data.items, resp.req.filters.sort)

\* sub is an order-preserving selection from full
RECURSIVE IsSelection(_, _)
IsSelection(sub, full) ==
    IF sub = <<>> THEN TRUE
    ELSE IF full = <<>> THEN FALSE
    ELSE IF Head(sub) = Head(full) THEN IsSelection(Tail(sub), Tail(full))
    ELSE IsSelection(sub, Tail(full))

ListOps == {"GetItems", "GetItemsBySeller"}

\* C18 as stated: in every list response each item's image list has at most
\* 3 entries, is an order-preserving selection from the stored list and holds
\* no inline-encoded image, while GetItemByID returns the full stored list.
C18_ListHidesInline ==
    (resp.op \in ListOps /\ resp.status = 200)
    => \A k \in 1..Len(resp.data.items) :
          LET listed == resp.data.items[k]
              stored == RowOf(items, listed.id)
          IN  /\ Len(listed.images) <= 3
              /\ IsSelection(listed.images, stored.images)
              /\ \A n \in 1..Len(listed.images) : ~listed.images[n].inline
              /\ GetItemByID(listed.id, "ok", items).item.images = stored.images

\* C18 (amended): in every list response each item's image list is an
\* order-preserving selection from the first 3 stored images, it holds every
\* one of those 3 that is a URL or an inline image of at most 500 characters
\* and no inline image longer than that, while GetItemByID returns the full
\* stored list.
C18_ListHidesLargeInline ==
    (resp.op \in ListOps /\ resp.status = 200)
    => \A k \in 1..Len(resp.data.items) :
          LET listed == resp.data.items[k]
              stored == RowOf(items, listed.id)
              firstThree == SubSeq(stored.images, 1, Min(3, Len(stored.images)))
              Large(img) == img.inline /\ img.size > 500
          IN  /\ Len(listed.images) <= 3
              /\ IsSelection(listed.images, firstThree)
              /\ \A n \in 1..Len(listed.images) : ~Large(listed.images[n])
              /\ \A n \in 1..Len(firstThree) :
                    ~Large(firstThree[n])
                    => \E m \in 1..Len(listed.images) :
                          listed.images[m] = firstThree[n]
              /\ GetItemByID(listed.id, "ok", items).item.images = stored.images

C18_Witness ==
    /\ resp.op = "GetItemsBySeller" /\ resp.status = 200
    /\ \E k \in 1..Len(resp.data.items) :
          /\ resp.data.items[k].images = <<UrlA, InlineSmall>>
          /\ RowOf(items, resp.data.items[k].id).images
                = <<UrlA, InlineLarge, InlineSmall, UrlB>>

\* C12: an authenticated POST /api/items whose body has location "" and is
\* otherwise valid (seller_id the authenticated id) is answered 201 and the
\* returned item has location 'PES University, Bangalore'.
C12_BlankLocationDefaults ==
    (/\ resp.op = "CreateItem" /\ resp.ran
     /\ resp.req.db = "ok" /\ resp.req.body.parses
     /\ resp.req.body.location = <<>>
     /\ ValidateCreate([resp.req.body EXCEPT !.location = LocLab]) = {}
     /\ resp.req.body.seller_id = resp.userID)
    => /\ resp.status = 201
       /\ resp.data.item.location = DefaultLocation

\* C19: a well-formed UpdateItem by the item's owner with payload P succeeds;
\* afterwards the stored item is the previous item with P's fields applied,
\* except that id, seller_id and created_at keep their values and updated_at
\* is stamped, and the updated item is returned.
C19_OwnerUpdateApplies ==
    [][(/\ resp'.op = "UpdateItem"
        /\ WellFormedMutation(resp')
        /\ Exists(items, resp'.req.id)
        /\ RowOf(items, resp'.req.id).seller_id = resp'.userID)
       => LET old == RowOf(items, resp'.req.id)
              new == RowOf(items', resp'.req.id)
              P == resp'.req.body.fields
          IN  /\ resp'.status = 200
              /\ \A f \in DOMAIN old :
                    new[f] = IF f \in {"id", "seller_id", "created_at"} THEN old[f]
                             ELSE IF f = "updated_at" THEN now
                             ELSE IF f \in DOMAIN P THEN P[f] ELSE old[f]
              /\ resp'.data = [item |-> new]]_vars

\* C20: items are never removed (every step keeps every stored id), and a
\* well-formed DeleteItem by the owner succeeds and changes nothing of the
\* stored item except its update timestamp.
C20_DeleteOnlyTouches ==
    [][/\ Len(items') >= Len(items)
       /\ \A i \in 1..Len(items) : Exists(items', items[i].id)
       /\ (/\ resp'.op = "DeleteItem"
           /\ WellFormedMutation(resp')
           /\ Exists(items, resp'.req.id)
           /\ RowOf(items, resp'.req.id).seller_id = resp'.userID)
          => /\ resp'.status = 200
             /\ \A f \in DOMAIN RowOf(items, resp'.req.id) \ {"updated_at"} :
                   RowOf(items', resp'.req.id)[f] = RowOf(items, resp'.req.id)[f]]_vars

HasSession(hdr) == \E u \in UserIds : hdr = Bearer(SessionToken(u))

\* C13: a request carrying one file of 6 MiB declared as image/jpeg together
\* with other valid image files gets the oversized file rejected with a
\* size-limit reason while every other valid file of the request is uploaded
\* and its URL returned.
C13_OversizedFileRejectedAlone ==
    (/\ resp.op = "UploadImage"
     /\ HasSession(resp.req.hdr) /\ resp.req.form = "ok"
     /\ Len(resp.req.files) <= MaxImagesPerUpload
     /\ \A k \in 1..Len(resp.req.files) : resp.req.io[k] = Io("ok", "ok")
     /\ \E k \in 1..Len(resp.req.files) : resp.req.files[k] = SixMiB
     /\ \E k \in 1..Len(resp.req.files) :
           /\ resp.req.files[k].size <= MaxFileSize
           /\ SniffedImage(resp.req.files[k].bytes) # "none")
    => LET files == resp.req.files
           valid == {k \in 1..Len(files) :
                        /\ files[k].size <= MaxFileSize
                        /\ SniffedImage(files[k].bytes) # "none"}
       IN  /\ resp.status = 200
           /\ \A k \in 1..Len(files) :
                 files[k] = SixMiB
                 => \E j \in 1..Len(resp.data.rejected) :
                       /\ resp.data.rejected[j].file = k
                       /\ resp.data.rejected[j].why = "exceeds 5MB limit"
           /\ Len(resp.data.urls) = Cardinality(valid)
           /\ \A k \in valid :
                 \A j \in 1..Len(resp.data.rejected) : resp.data.rejected[j].file # k

\* the number of images a request carries, when the handler can tell
ImageCount(r) ==
    IF r.op = "UploadImage" THEN Len(r.req.files) ELSE Len(r.req.images)
Countable(r) ==
    IF r.op = "UploadImage" THEN r.req.form = "ok" ELSE r.req.parses

\* C14: a multipart upload or a base64 conversion request that reaches its
\* handler with more than 5 images is rejected as a whole with 400 (and
\* 'Maximum 5 images allowed per upload' on the multipart path) before any
\* file is inspected, and nothing is sent to the storage service.
C14_TooManyImagesRejected ==
    [][(/\ resp'.op \in {"UploadImage", "ConvertImages"}
        /\ resp'.ran /\ Countable(resp')
        /\ ImageCount(resp') > 5)
       => /\ resp'.status = 400
          /\ resp'.op = "UploadImage"
                => resp'.error = "Maximum 5 images allowed per upload"
          /\ resp'.op = "ConvertImages"
                => resp'.error = "Maximum 5 images allowed per conversion"
          /\ resp'.data.rejected = <<>>
          /\ resp'.data.sent = <<>>
          /\ resp'.data.urls = <<>>
          /\ blobs' = blobs]_vars

C14_Witness ==
    /\ resp.op = "UploadImage" /\ resp.ran
    /\ Len(resp.req.files) = 6
    /\ resp.status = 400
    /\ Len(blobs) > 0

\* the positions of a request's images that are not among the rejected
Accepted(n, rejected) ==
    SelectSeq([k \in 1..n |-> k],
              LAMBDA k : \A j \in 1..Len(rejected) : rejected[j].file # k)

\* C15: for an image request with n files (1 <= n <= 5) that reaches the
\* loop of its handler, every file is either uploaded (one URL) or rejected
\* (one reason), so urls + rejections = n and the URLs keep request order;
\* the response is a 400 listing the rejections exactly when no file
\* succeeded, and otherwise a success with the URLs and a warning message
\* exactly when at least one file was rejected.
C15_AggregateResult ==
    (/\ resp.op \in {"UploadImage", "ConvertImages"}
     /\ resp.ran /\ Countable(resp)
     /\ ImageCount(resp) >= 1 /\ ImageCount(resp) <= 5)
    => LET n == ImageCount(resp)
           urls == resp.data.urls
           rejected == resp.data.rejected
           accepted == Accepted(n, rejected)
       IN  /\ Len(urls) + Len(rejected) = n
           /\ \A j \in 1..Len(rejected) :
                 /\ rejected[j].file \in 1..n
                 /\ rejected[j].why # ""
                 /\ \A i \in 1..Len(rejected) :
                       i < j => rejected[i].file < rejected[j].file
           /\ Len(accepted) = Len(urls)
           /\ \A i \in 1..Len(urls) :
                 IF resp.op = "UploadImage"
                 THEN /\ urls[i].ext
                           = ExtensionOf(SniffedImage(resp.req.files[accepted[i]].bytes))
                      /\ \A h \in 1..Len(urls) : h < i => urls[h].uuid < urls[i].uuid
                 ELSE IF resp.req.images[accepted[i]].data
                 THEN urls[i].index = accepted[i] - 1
                 ELSE urls[i] = resp.req.images[accepted[i]].url
           /\ (resp.status = 400) = (Len(urls) = 0)
           /\ resp.status \in {200, 400}
           /\ resp.status = 400 => resp.error = "All images rejected"
           /\ resp.status = 200 => ((resp.data.message # "") = (Len(rejected) > 0))

C15_Witness ==
    /\ resp.op = "UploadImage" /\ resp.status = 200
    /\ Len(resp.req.files) = 5
    /\ Len(resp.data.urls) = 1
    /\ Len(resp.data.rejected) = 4
    /\ resp.data.message # ""

\* C16 as stated: no two stored objects share a name, and every name is built
\* from a server-generated identifier, a timestamp and the validated
\* extension, never from text of the request.
C16_NamesServerGenerated ==
    /\ \A i \in 1..Len(blobs), j \in 1..Len(blobs) :
          i # j => blobs[i].name # blobs[j].name
    /\ \A i \in 1..Len(blobs) : DOMAIN blobs[i].name = {"uuid", "unix", "ext"}

\* C16 (amended): no two stored objects share a name.  UploadImage names an
\* object by a server-generated identifier no stored object has, the time and
\* the validated extension; ConvertBase64ToStorage names it by the item_id of
\* the request, the time, the position in the request and the validated
\* extension, and an image whose name is already held is not stored.
C16_StoredNamesDiffer ==
    [][LET added == SubSeq(blobs', Len(blobs) + 1, Len(blobs'))
       IN  /\ \A i \in 1..Len(blobs'), j \in 1..Len(blobs') :
                 i # j => blobs'[i].name # blobs'[j].name
           /\ resp'.op = "UploadImage"
                 => \A a \in 1..Len(added) :
                       /\ DOMAIN added[a].name = {"uuid", "unix", "ext"}
                       /\ added[a].name.unix = now
                       /\ added[a].name.ext
                             = ExtensionOf(SniffedImage(added[a].bytes))
                       /\ \A i \in 1..Len(blobs) :
                             "uuid" \in DOMAIN blobs[i].name
                             => blobs[i].name.uuid # added[a].name.uuid
           /\ resp'.op = "ConvertImages"
                 => \A a \in 1..Len(added) :
                       /\ DOMAIN added[a].name = {"item", "unix", "index", "ext"}
                       /\ added[a].name.item = resp'.req.item_id
                       /\ added[a].name.unix = now
                       /\ added[a].name.ext
                             = ExtensionOf(SniffedImage(added[a].bytes))
                       /\ \A i \in 1..Len(blobs) : blobs[i].name # added[a].name]_vars

C16_Witness ==
    /\ resp.op = "ConvertImages" /\ resp.status = 400
    /\ resp.req.images = <<DataJpeg>>
    /\ resp.req.io = AllOk(1)
    /\ resp.data.rejected = <<[file |-> 1, why |-> "upload failed"]>>
    /\ \E i \in 1..Len(blobs) :
          blobs[i].name = [item |-> resp.req.item_id, unix |-> now, index |-> 0,
                           ext |-> ".jpg"]
    /\ \E i \in 1..Len(blobs) : "uuid" \in DOMAIN blobs[i].name

\* C21: in every state reached by create and update requests, every stored
\* item has a price above zero.
C21_PricePositive ==
    \A i \in 1..Len(items) : items[i].price > 0

\* the owner of a stored item has asked to set its price to zero or below,
\* and an item created before it is still stored with its price
C21_Witness ==
    /\ resp.op = "UpdateItem"
    /\ resp.ran
    /\ resp.req.body.fields.price <= 0
    /\ Exists(items, resp.req.id)
    /\ RowOf(items, resp.req.id).seller_id = resp.userID
    /\ Len(items) = MaxItems

\* C22: GetActiveChats for user U returns exactly one chat per counterpart
\* with whom U has exchanged a message, and the last message of each chat is
\* the most recent message exchanged between U and that counterpart.
Between(row, u, v) ==
    \/ row.sender_id = u /\ row.receiver_id = v
    \/ row.sender_id = v /\ row.receiver_id = u

Counterparts(u) ==
    {messages[k].receiver_id : k \in {j \in 1..Len(messages) : messages[j].sender_id = u}}
    \cup {messages[k].sender_id : k \in {j \in 1..Len(messages) : messages[j].receiver_id = u}}

Admitted(addr, routes) ==
    LET past == {t \in BagToSet(tasks) :
                    t.addr = addr /\ t.route \in routes /\ t.pc \in {"handler", "done"}}
        RECURSIVE Sum(_)
        Sum(S) == IF S = {} THEN 0
                  ELSE LET t == CHOOSE x \in S : TRUE
                       IN  CopiesIn(t, tasks) + Sum(S \ {t})
    IN  Sum(past)

C23_AdmittedWithinBudget ==
    /\ \A a \in Addresses :
          /\ Admitted(a, {"auth", "items"}) <= RateLimitMax
          /\ Admitted(a, {"auth"}) <= AuthRateLimitMax
    /\ resp.status = 429 => ~resp.ran

\* the call of MarkMessagesAsRead behind a response, with the arguments it
\* was made with
MarkCall(r) ==
    IF r.op = "MarkAsRead" /\ r.status = 200
    THEN [made |-> TRUE, userID |-> r.userID,
          otherUserID |-> r.req.body.other_user_id, itemID |-> r.req.body.item_id]
    ELSE IF r.op = "BackgroundMarkAsRead" /\ r.req.db = "ok"
    THEN [made |-> TRUE, userID |-> r.req.task.userID,
          otherUserID |-> Captured(r.req.task.otherUserID, r.req.reused),
          itemID |-> Captured(r.req.task.itemID, r.req.reused)]
    ELSE [made |-> FALSE, userID |-> "", otherUserID |-> "", itemID |-> ""]

\* C24: MarkMessagesAsRead(U, V, item) stamps the read time of exactly the
\* unread messages sent by V to U, of the item when one is given and of every
\* item when none is given, and changes nothing else of any message.
C24_MarkChangesOnlyAddressed ==
    [][(MarkCall(resp').made /\ now' = now)
       => LET c == MarkCall(resp')
              Addressed(row) ==
                  /\ row.receiver_id = c.userID
                  /\ row.sender_id = c.otherUserID
                  /\ row.read_at = Null
                  /\ c.itemID # "" => row.item_id = c.itemID
          IN  /\ Len(messages') = Len(messages)
              /\ \A k \in 1..Len(messages) :
                    messages'[k] = IF Addressed(messages[k])
                                   THEN [messages[k] EXCEPT !.read_at = now]
                                   ELSE messages[k]]_vars

\* C25: a message sent to an id that no user row has is answered 404
\* 'receiver not found', a message sent to oneself is answered 400, and no
\* stored message has its sender as receiver or a receiver without a user row.
Registered(uid) == \E k \in 1..Len(users) : users[k].id = uid

C25_ReceiverExists ==
    /\ (/\ resp.op = "SendMessage"
        /\ resp.ran
        /\ resp.req.body.parses
        /\ resp.req.dbValidate = "ok"
        /\ resp.req.body.receiver_id # resp.userID
        /\ ~Registered(resp.req.body.receiver_id))
       => resp.status = 404 /\ resp.error = "receiver not found"
    /\ (/\ resp.op = "SendMessage"
        /\ resp.ran
        /\ resp.req.body.parses
        /\ resp.req.body.receiver_id = resp.userID)
       => resp.status = 400
    /\ \A k \in 1..Len(messages) :
          /\ messages[k].sender_id # messages[k].receiver_id
          /\ Registered(messages[k].receiver_id)

\* C26: GetMessages(U, V, item) returns only messages whose sender and
\* receiver are U and V, in either direction, and only of the item when one
\* is given.
C26_OnlyTheConversation ==
    (resp.op = "GetMessages" /\ resp.status = 200)
        => \A k \in 1..Len(resp.data.messages) :
              /\ Between(resp.data.messages[k], resp.userID, resp.req.other_user_id)
              /\ resp.req.item_id # ""
                    => resp.data.messages[k].item_id = resp.req.item_id

\* C27: the sender recorded on a stored message, and the user whose chats an
\* endpoint reads, is the identity of the verified token of the request; no
\* header or body field makes an authenticated user act as another.
C27_ActsAsTokenIdentity ==
    [][/\ (resp'.op = "SendMessage" /\ Len(messages') = Len(messages) + 1)
          => messages'[Len(messages')].sender_id = resp'.req.hdr.token.uid
       /\ (resp'.op = "GetActiveChats" /\ resp'.status = 200)
          => /\ resp'.userID = resp'.req.hdr.token.uid
             /\ \A c \in resp'.data.chats : c.user1_id = resp'.req.hdr.token.uid]_vars

\* C28: whatever the interleaving of concurrent logins for one identity
\* string, once they have finished the store holds at most one user row for
\* that identity.
C28_OneRowPerIdentity ==
    tasks = <<>> =>
        \A i \in 1..Len(users), j \in 1..Len(users) :
            users[i].srn = users[j].srn => i = j

\* C29: a login never undoes a profile update that completed: the write of a
\* login leaves bio, avatar, location and nickname of every row as the last
\* profile update stored them.
ProfileFields(row) ==
    <<row.bio, row.avatar_url, row.location, row.nickname>>

C29_LoginKeepsProfileUpdate ==
    [][(resp'.op = "Login" /\ resp'.status = 200 /\ Len(users') = Len(users))
       => \A k \in 1..Len(users) : ProfileFields(users'[k]) = ProfileFields(users[k])]_vars

\* C30: the marking started by a GetMessages request gives a read time only
\* to messages that the response of that request carried, whatever requests
\* ran in between and whatever the page; and the response of the fetch is the
\* page of the table at the time of the fetch, whatever becomes of the marking.
C30_MarksOnlyReturned ==
    [][/\ (resp'.op = "BackgroundMarkAsRead" /\ tasks # <<>> /\ tasks' = Tail(tasks))
          => \A k \in 1..Len(messages) :
                (messages[k].read_at = Null /\ messages'[k].read_at # Null)
                    => messages[k].id \in Head(tasks).returned
       /\ (resp'.op = "GetMessages" /\ resp'.status = 200 /\ tasks' # tasks)
          => resp'.data.messages =
                GetMessagesService(resp'.userID, resp'.req.other_user_id,
                                   resp'.req.item_id,
                                   ParsePagination(resp'.req.limit, resp'.req.offset).limit,
                                   ParsePagination(resp'.req.limit, resp'.req.offset).offset,
                                   messages)]_vars

====
